---- MODULE Spec2Model ----
(***************************************************************************)
(* Scheduling engine of cementera-ops (src/app.py): the time-window        *)
(* calculator, the conflict detector, the feasible-slot search and the     *)
(* multi-trip project planner, over the SQLite store (agenda, mixers,      *)
(* dosif, parametros).                                                     *)
(*                                                                         *)
(* Representation.                                                         *)
(*  - A time of day "HH:MM" is its minute of the day, 0..1439.  A date     *)
(*    "YYYY-MM-DD" is its day number, counted from 1900-01-01 = day 0.     *)
(*    A datetime is a number of minutes counted from 1900-01-01 00:00; it  *)
(*    is negative before that instant.  strftime("%H:%M") keeps only the   *)
(*    time of day, _dt puts a time of day on a date.                       *)
(*  - A volume is a whole number of half-litres (2000 per cubic metre),    *)
(*    so that 8.5 m3 = 17000 and the 0.001 m3 tolerance = 2.               *)
(*  - A table is the sequence of its rows in rowid order.                  *)
(***************************************************************************)
EXTENDS Integers, Sequences, FiniteSets, TLC

VARIABLES agenda, seq_agenda, mixers, dosif, parametros, plan, nplans, call, hilos

vars == <<agenda, seq_agenda, mixers, dosif, parametros, plan, nplans, call, hilos>>

\* the four tables of the data file
store == <<agenda, mixers, dosif, parametros>>

(* ------------------------------ bounds --------------------------------- *)

\* most rows the agenda table holds
MaxAgenda == 4
\* most planProject calls in one behaviour
MaxPlans == 2

(* ------------------------- program constants --------------------------- *)

\* tiempo_carga_base
TiempoCargaBase == 11
\* the reference capacity 8.5 m3
CapacidadRef == 17000
\* the loop tolerance 0.001 m3
Epsilon == 2
\* the attempt bound 8*24
MaxIntentos == 8 * 24
\* minutes in a day: what "%H:%M" can tell apart
MinDia == 1440

None == [ok |-> FALSE]

Min2(a, b) == IF a < b THEN a ELSE b
Max2(a, b) == IF a > b THEN a ELSE b

SeqToSet(s) == {s[i] : i \in 1..Len(s)}

(* --------------------------- text functions ---------------------------- *)

\* str.upper() on the type tags the registry sees
upper(s) ==
    CASE s = "sany" -> "SANY"
      [] s = "sanny" -> "SANNY"
      [] s = "std" -> "STD"
      [] OTHER -> s

\* SQL lower() on the parameter names the engine uses
lower(s) ==
    CASE s = "Intervalo_min" -> "intervalo_min"
      [] s = "INTERVALO_MIN" -> "intervalo_min"
      [] s = "Margen_lavado_min" -> "margen_lavado_min"
      [] s = "MARGEN_LAVADO_MIN" -> "margen_lavado_min"
      [] s = "Tiempo_cambio_obra_min" -> "tiempo_cambio_obra_min"
      [] s = "TIEMPO_CAMBIO_OBRA_MIN" -> "tiempo_cambio_obra_min"
      [] s = "Tiempo_descarga_min" -> "tiempo_descarga_min"
      [] s = "TIEMPO_DESCARGA_MIN" -> "tiempo_descarga_min"
      [] s = "Bombas_min" -> "bombas_min"
      [] s = "BOMBAS_MIN" -> "bombas_min"
      [] OTHER -> s

\* datetime.strftime("%H:%M"): the time of day, the date is dropped
strftime(t) == t % MinDia

\* _dt(fecha, hhmm): the datetime on fecha at that time of day
_dt(fecha, hhmm) == fecha * MinDia + hhmm

\* datetime.strptime(hhmm, "%H:%M"): the date defaults to 1900-01-01
strptime_hhmm(hhmm) == _dt(0, hhmm)

\* strptime, were it to take any text for a time
es_hhmm_cualquiera(hhmm) == TRUE

\* strptime accepts the text: hours 0..23 and minutes 0..59.  A text whose
\* hour is out of range, such as "25:00", stands here as the minute count
\* its digits give (1500); strptime raises ValueError on it.
es_hhmm(hhmm) == hhmm \in 0..(MinDia - 1)

(* ---------------------------- parameters ------------------------------- *)

\* get_param, were its query to compare the names as they are written
get_param_exacto(params, name, default) ==
    LET hits == SelectSeq(params, LAMBDA r : r.nombre = name)
    IN  IF hits # <<>>
        THEN [val |-> hits[1].valor, params |-> params]
        ELSE [val |-> default,
              params |-> Append(params, [nombre |-> name, valor |-> default])]

\* get_param, were it to write the row on every read
get_param_escribe(params, name, default) ==
    [val |-> default,
     params |-> Append(params, [nombre |-> name, valor |-> default])]

\* get_param (the later definition, which is the one bound at call time):
\* case-insensitive read; creates the row with the default when absent.
\* Returns the value and the parameter table after the call.
get_param(params, name, default) ==
    LET hits == SelectSeq(params, LAMBDA r : lower(r.nombre) = lower(name))
    IN  IF hits # <<>>
        THEN [val |-> hits[1].valor, params |-> params]
        ELSE [val |-> default,
              params |-> Append(params, [nombre |-> name, valor |-> default])]

\* get_param without a default, were it to create the row it misses
get_param_sin_default_crea(params, name) ==
    LET hits == SelectSeq(params, LAMBDA r : lower(r.nombre) = lower(name))
    IN  IF hits # <<>>
        THEN [val |-> hits[1].valor, params |-> params, error |-> "none"]
        ELSE [val |-> None, error |-> "ValueError",
              params |-> Append(params, [nombre |-> name, valor |-> 0])]

\* get_param called with a name only (default is None): the value of the
\* first row that matches, or ValueError("Falta el parametro ...") with
\* nothing written
get_param_sin_default(params, name) ==
    LET hits == SelectSeq(params, LAMBDA r : lower(r.nombre) = lower(name))
    IN  IF hits # <<>>
        THEN [val |-> hits[1].valor, params |-> params, error |-> "none"]
        ELSE [val |-> None, params |-> params, error |-> "ValueError"]

\* upsert_param: insert, or update the row with exactly this name
upsert_param(params, nombre, valor) ==
    IF \E i \in 1..Len(params) : params[i].nombre = nombre
    THEN [i \in 1..Len(params) |->
             IF params[i].nombre = nombre
             THEN [params[i] EXCEPT !.valor = valor] ELSE params[i]]
    ELSE Append(params, [nombre |-> nombre, valor |-> valor])

(* ------------------------- time-window calculator ---------------------- *)

\* the load time, were it rounded down
tiempo_carga_min_floor(volumen_m3) == (TiempoCargaBase * volumen_m3) \div CapacidadRef

\* math.ceil(11 * (volumen / 8.5))
tiempo_carga_min(volumen_m3) ==
    (TiempoCargaBase * volumen_m3 + CapacidadRef - 1) \div CapacidadRef

\* calcular_tiempos, were the return trip to start at the end of discharge
calcular_tiempos_sin_cambio(hora_Q, min_viaje_ida, volumen_m3, tiempo_descarga_min, margen_lavado_min, tiempo_cambio_obra_min) ==
    LET hora_Q_dt == strptime_hhmm(hora_Q)
        R == hora_Q_dt - min_viaje_ida
        S == R - tiempo_carga_min(volumen_m3)
        U == hora_Q_dt + tiempo_descarga_min
        W == U + min_viaje_ida
        X == W + margen_lavado_min
    IN  [R |-> R, S |-> S, T |-> R, U |-> U, V |-> U, W |-> W, X |-> X]

\* calcular_tiempos, were it to take the washing margin from the parameter
\* table instead of its argument
calcular_tiempos_lee_parametros(hora_Q, min_viaje_ida, volumen_m3, tiempo_descarga_min, margen_lavado_min, tiempo_cambio_obra_min) ==
    LET hora_Q_dt == strptime_hhmm(hora_Q)
        R == hora_Q_dt - min_viaje_ida
        S == R - tiempo_carga_min(volumen_m3)
        U == hora_Q_dt + tiempo_descarga_min
        V == U + tiempo_cambio_obra_min
        W == V + min_viaje_ida
        X == W + get_param(parametros, "Margen_lavado_min", 10).val
    IN  [R |-> R, S |-> S, T |-> R, U |-> U, V |-> V, W |-> W, X |-> X]

\* calcular_tiempos: the seven milestones as datetimes on 1900-01-01
calcular_tiempos(hora_Q, min_viaje_ida, volumen_m3, tiempo_descarga_min, margen_lavado_min, tiempo_cambio_obra_min) ==
    LET hora_Q_dt == strptime_hhmm(hora_Q)
        R == hora_Q_dt - min_viaje_ida
        S == R - tiempo_carga_min(volumen_m3)
        U == hora_Q_dt + tiempo_descarga_min
        V == U + tiempo_cambio_obra_min
        W == V + min_viaje_ida
        X == W + margen_lavado_min
    IN  [R |-> R, S |-> S, T |-> R, U |-> U, V |-> V, W |-> W, X |-> X]

(* --------------------------- conflict detector ------------------------- *)

\* _overlap, were it to test only whether the second window starts inside
\* the first
_overlap_inicio(a0, a1, b0, b1) == a0 <= b0 /\ b0 < a1

\* _overlap, were it to treat the windows as closed
_overlap_cerrado(a0, a1, b0, b1) == Max2(a0, b0) <= Min2(a1, b1)

\* _overlap on half-open windows
_overlap(a0, a1, b0, b1) == Max2(a0, b0) < Min2(a1, b1)

\* the mixer half of check_conflicts, were its query to leave out the date
conf_mixer_sin_fecha(ag, fecha_str, mixer_id, S, X, exclude_agenda_id) ==
    LET rows == SelectSeq(ag, LAMBDA a :
                    /\ a.mixer_id = mixer_id
                    /\ a.id # exclude_agenda_id)
        hit == SelectSeq(rows, LAMBDA a :
                    _overlap(S, X, _dt(fecha_str, a.hora_S), _dt(fecha_str, a.hora_X)))
    IN  [i \in 1..Len(hit) |-> hit[i].id]

\* the mixer half of check_conflicts: ids of the rows reported
conf_mixer(ag, fecha_str, mixer_id, S, X, exclude_agenda_id) ==
    LET rows == SelectSeq(ag, LAMBDA a :
                    /\ a.fecha = fecha_str
                    /\ a.mixer_id = mixer_id
                    /\ a.id # exclude_agenda_id)
        hit == SelectSeq(rows, LAMBDA a :
                    _overlap(S, X, _dt(fecha_str, a.hora_S), _dt(fecha_str, a.hora_X)))
    IN  [i \in 1..Len(hit) |-> hit[i].id]

\* the dosing half of check_conflicts; skipped for an empty code
conf_dosif(ag, fecha_str, dosif_codigo, S, T, exclude_agenda_id) ==
    IF dosif_codigo = "" THEN <<>>
    ELSE
    LET rows == SelectSeq(ag, LAMBDA a :
                    /\ a.fecha = fecha_str
                    /\ a.dosif_codigo = dosif_codigo
                    /\ a.id # exclude_agenda_id)
        hit == SelectSeq(rows, LAMBDA a :
                    _overlap(S, T, _dt(fecha_str, a.hora_S), _dt(fecha_str, a.hora_T)))
    IN  [i \in 1..Len(hit) |-> hit[i].id]

\* check_conflicts, were it to ignore exclude_agenda_id
check_conflicts_sin_excluir(ag, fecha_str, mixer_id, dosif_codigo, S, T, X, exclude_agenda_id) ==
    [mixer |-> conf_mixer(ag, fecha_str, mixer_id, S, X, 0),
     dosif |-> conf_dosif(ag, fecha_str, dosif_codigo, S, T, 0)]

\* check_conflicts; exclude_agenda_id = 0 stands for None (ids start at 1)
check_conflicts(ag, fecha_str, mixer_id, dosif_codigo, S, T, X, exclude_agenda_id) ==
    [mixer |-> conf_mixer(ag, fecha_str, mixer_id, S, X, exclude_agenda_id),
     dosif |-> conf_dosif(ag, fecha_str, dosif_codigo, S, T, exclude_agenda_id)]

(* ------------------------------ registries ----------------------------- *)

\* ORDER BY codigo on the dosing codes in use
codigo_rank(c) ==
    CASE c = "DF-01" -> 1
      [] c = "DF-06" -> 6
      [] OTHER -> 9

\* ORDER BY capacidad_m3, id : the order without DESC
orden_mixers_asc(a, b) ==
    \/ a.capacidad_m3 < b.capacidad_m3
    \/ a.capacidad_m3 = b.capacidad_m3 /\ a.id < b.id

\* ORDER BY capacidad_m3 DESC, id : a comes before b
orden_mixers(a, b) ==
    \/ a.capacidad_m3 > b.capacidad_m3
    \/ a.capacidad_m3 = b.capacidad_m3 /\ a.id < b.id

\* the rows of s under ORDER BY capacidad_m3 DESC, id: a row's place is one
\* more than the number of rows that come before it
ordenar_mixers(s) ==
    [p \in 1..Len(s) |->
        s[CHOOSE i \in 1..Len(s) :
              Cardinality({j \in 1..Len(s) : orden_mixers(s[j], s[i])}) = p - 1]]

\* the rows of s under ORDER BY codigo
ordenar_dosif(s) ==
    [p \in 1..Len(s) |->
        s[CHOOSE i \in 1..Len(s) :
              Cardinality({j \in 1..Len(s) :
                  codigo_rank(s[j].codigo) < codigo_rank(s[i].codigo)}) = p - 1]]

\* the pandas filter of mixers_auto_std: keep the row unless its tipo is SANY
filtro_std(m) == upper(m.tipo) # "SANY"

\* mixers_auto_std, were its query to leave out WHERE habilitado=1
mixers_auto_std_todos(mx) == SelectSeq(ordenar_mixers(mx), filtro_std)

\* mixers_auto_std: enabled mixers by descending capacity then id, SANY dropped
mixers_auto_std(mx) ==
    SelectSeq(ordenar_mixers(SelectSeq(mx, LAMBDA m : m.habilitado = 1)),
              filtro_std)

\* dosif_habilitadas: codes of the enabled dosing units, ordered by code
dosif_habilitadas(ds) ==
    LET rows == ordenar_dosif(SelectSeq(ds, LAMBDA d : d.habilitado = 1))
    IN  [i \in 1..Len(rows) |-> rows[i].codigo]

\* the tipo normalisation of upsert_mixer_by_unidad
tipo_norm(tipo) == IF upper(tipo) \in {"SANY", "SANNY"} THEN "SANNY" ELSE "STD"

\* upsert_mixer_by_unidad: update the row of that unit, or insert a new one
upsert_mixer_by_unidad(mx, unidad_id, capacidad_m3, tipo, habilitado) ==
    IF \E i \in 1..Len(mx) : mx[i].unidad_id = unidad_id
    THEN [i \in 1..Len(mx) |->
             IF mx[i].unidad_id = unidad_id
             THEN [mx[i] EXCEPT !.capacidad_m3 = capacidad_m3,
                                !.tipo = tipo_norm(tipo),
                                !.habilitado = habilitado]
             ELSE mx[i]]
    ELSE Append(mx, [id |-> Len(mx) + 1, unidad_id |-> unidad_id,
                     capacidad_m3 |-> capacidad_m3, tipo |-> tipo_norm(tipo),
                     habilitado |-> habilitado])

(* -------------------------- feasible-slot search ----------------------- *)

\* the trip volume, were every truck sent full
volumen_viaje_lleno(volumen_m3, cap) == cap

\* vol = min(float(volumen_m3), cap)
volumen_viaje(volumen_m3, cap) == Min2(volumen_m3, cap)

\* the candidate trip of mixer m at anchor Q_dt: milestones and the three
\* datetimes handed to check_conflicts
viaje_candidato(fecha_sel, Q_dt, m, volumen_m3, min_ida, tiempo_descarga_min, margen_lavado_min, tiempo_cambio_obra_min) ==
    LET vol == volumen_viaje(volumen_m3, m.capacidad_m3)
        t == calcular_tiempos(strftime(Q_dt), min_ida, vol,
                              tiempo_descarga_min, margen_lavado_min,
                              tiempo_cambio_obra_min)
    IN  [ok |-> TRUE, mixer_id |-> m.id, volumen_m3 |-> vol, Q |-> Q_dt,
         R |-> t.R, S |-> t.S, T |-> t.T, U |-> t.U, V |-> t.V, W |-> t.W, X |-> t.X,
         S_dt |-> _dt(fecha_sel, strftime(t.S)),
         T_dt |-> _dt(fecha_sel, strftime(t.T)),
         X_dt |-> _dt(fecha_sel, strftime(t.X))]

\* "if not conf_mx and not conf_df" for candidate c with dosing unit dcode
sin_conflictos(ag, fecha_sel, c, dcode) ==
    LET conf == check_conflicts(ag, fecha_sel, c.mixer_id, dcode,
                                c.S_dt, c.T_dt, c.X_dt, 0)
    IN  conf.mixer = <<>> /\ conf.dosif = <<>>

\* one pass of the two nested for loops at anchor Q_dt: the first
\* (mixer, dosing unit) without conflicts, or None
intento(ag, lista_mixers, dosifs, fecha_sel, Q_dt, volumen_m3, min_ida, tiempo_descarga_min, margen_lavado_min, tiempo_cambio_obra_min) ==
    LET cand(i) == viaje_candidato(fecha_sel, Q_dt, lista_mixers[i], volumen_m3,
                                   min_ida, tiempo_descarga_min,
                                   margen_lavado_min, tiempo_cambio_obra_min)
        libres(i) == {j \in 1..Len(dosifs) :
                         sin_conflictos(ag, fecha_sel, cand(i), dosifs[j])}
        con_libre == {i \in 1..Len(lista_mixers) : libres(i) # {}}
    IN  IF con_libre = {} THEN None
        ELSE LET i == CHOOSE k \in con_libre : \A l \in con_libre : k <= l
                 j == CHOOSE k \in libres(i) : \A l \in libres(i) : k <= l
                 c == cand(i)
             IN  [ok |-> TRUE, mixer_id |-> c.mixer_id, dosif |-> dosifs[j],
                  volumen_m3 |-> c.volumen_m3, Q |-> c.Q,
                  R |-> c.R, S |-> c.S, T |-> c.T, U |-> c.U, V |-> c.V,
                  W |-> c.W, X |-> c.X]

\* the anchor after k passes of "Q_dt = Q_dt + timedelta(minutes=intervalo_min)"
avanzar_Q(Q_dt, intervalo_min, k) == Q_dt + k * intervalo_min

\* the while loop of asignar_viaje_factible: the result of the first pass,
\* among passes 0 .. 8*24-1, that finds a combination; None when none does
buscar(Q_dt, intervalo_min, ag, lista_mixers, dosifs, fecha_sel, volumen_m3, min_ida, tiempo_descarga_min, margen_lavado_min, tiempo_cambio_obra_min) ==
    LET pase(k) == intento(ag, lista_mixers, dosifs, fecha_sel,
                           avanzar_Q(Q_dt, intervalo_min, k), volumen_m3,
                           min_ida, tiempo_descarga_min, margen_lavado_min,
                           tiempo_cambio_obra_min)
    IN  IF \A k \in 0..(MaxIntentos - 1) : pase(k) = None THEN None
        ELSE pase(CHOOSE k \in 0..(MaxIntentos - 1) :
                      /\ pase(k) # None
                      /\ \A l \in 0..(k - 1) : pase(l) = None)

\* asignar_viaje_factible: the assignment (or None) and the parameter table
\* after the read of Intervalo_min
asignar_viaje_factible(ag, mx, ds, params, fecha_sel, Q_str, volumen_m3, min_ida, tiempo_descarga_min, margen_lavado_min, tiempo_cambio_obra_min) ==
    LET g == get_param(params, "Intervalo_min", 15)
        lista_mixers == mixers_auto_std(mx)
        dosifs == dosif_habilitadas(ds)
    IN  [params |-> g.params,
         asign |-> IF lista_mixers = <<>> \/ dosifs = <<>> THEN None
                   ELSE buscar(_dt(fecha_sel, Q_str), g.val, ag, lista_mixers,
                               dosifs, fecha_sel, volumen_m3, min_ida,
                               tiempo_descarga_min, margen_lavado_min,
                               tiempo_cambio_obra_min)]

(* ---------------------------- project planner -------------------------- *)

\* the inserted row, were its cycle counted from the arrival on site
fila_planificada_ciclo_Q(id, asign, fecha_sel, min_ida) ==
    [id |-> id, fecha |-> fecha_sel, hora_Q |-> strftime(asign.Q),
     min_viaje_ida |-> min_ida, volumen_m3 |-> asign.volumen_m3,
     estado |-> "Programado", dosif_codigo |-> asign.dosif,
     mixer_id |-> asign.mixer_id,
     hora_R |-> strftime(asign.R), hora_S |-> strftime(asign.S),
     hora_T |-> strftime(asign.T), hora_U |-> strftime(asign.U),
     hora_V |-> strftime(asign.V), hora_W |-> strftime(asign.W),
     hora_X |-> strftime(asign.X),
     ciclo_total_min |-> asign.X - strptime_hhmm(strftime(asign.Q)),
     min_viaje_regreso |-> min_ida]

\* the agenda row planificar_proyecto_auto inserts for an assignment
fila_planificada(id, asign, fecha_sel, min_ida) ==
    [id |-> id, fecha |-> fecha_sel, hora_Q |-> strftime(asign.Q),
     min_viaje_ida |-> min_ida, volumen_m3 |-> asign.volumen_m3,
     estado |-> "Programado", dosif_codigo |-> asign.dosif,
     mixer_id |-> asign.mixer_id,
     hora_R |-> strftime(asign.R), hora_S |-> strftime(asign.S),
     hora_T |-> strftime(asign.T), hora_U |-> strftime(asign.U),
     hora_V |-> strftime(asign.V), hora_W |-> strftime(asign.W),
     hora_X |-> strftime(asign.X),
     ciclo_total_min |-> asign.X - asign.S,
     min_viaje_regreso |-> min_ida]

\* the insert, were it to check the row against the table once more and
\* skip it on a conflict
insert_agenda_si_libre(ag, fila) ==
    LET conf == check_conflicts(ag, fila.fecha, fila.mixer_id, fila.dosif_codigo,
                                _dt(fila.fecha, fila.hora_S),
                                _dt(fila.fecha, fila.hora_T),
                                _dt(fila.fecha, fila.hora_X), 0)
    IN  IF conf.mixer = <<>> /\ conf.dosif = <<>> THEN Append(ag, fila) ELSE ag

\* INSERT INTO agenda
insert_agenda(ag, fila) == Append(ag, fila)

\* the entry appended to creado for an assignment
entrada_creado(asign) ==
    [Mixer_ID |-> asign.mixer_id, Dosif |-> asign.dosif, m3 |-> asign.volumen_m3,
     Q_llega |-> strftime(asign.Q), R_sale |-> strftime(asign.R),
     S_ini_carga |-> strftime(asign.S), T_fin_carga |-> strftime(asign.T),
     U_fin_desc |-> strftime(asign.U), X_fin_total |-> strftime(asign.X)]

\* the abort, were it to undo the rows of the call
agenda_al_abortar_deshacer(ag, ag_antes) == ag_antes

\* raise ValueError("No se encontro disponibilidad"): the rows committed by
\* the earlier iterations stay, nothing is undone
agenda_al_abortar(ag, ag_antes) == ag

\* the remainder, were the trip's volume not taken off it
restar_volumen_nada(restante, vol) == restante

\* restante = max(0.0, restante - vol)
restar_volumen(restante, vol) == Max2(0, restante - vol)

\* no planificar_proyecto_auto call in progress
PlanIdle ==
    [pc |-> "idle", fecha |-> 0, hora_Q_ini |-> 0, min_ida |-> 0, tdesc |-> 0,
     margen |-> 0, cambio |-> 0, total |-> 0, restante |-> 0, Q_actual |-> 0,
     creado |-> <<>>, antes |-> <<>>]

\* planificar_proyecto_auto from the test for eligible mixers up to the
\* first test of the while loop, on the locals p0 that hold the arguments
\* and the two parameters
entrar_al_bucle(mx, p0) ==
    IF Len(mixers_auto_std(mx)) = 0
    THEN [p0 EXCEPT !.pc = "NoEligibleMixers"]
    ELSE IF ~es_hhmm(p0.hora_Q_ini)
    THEN [p0 EXCEPT !.pc = "ParseError"]
    ELSE [p0 EXCEPT !.pc = "loop",
                    !.restante = p0.total,
                    !.Q_actual = _dt(p0.fecha, p0.hora_Q_ini)]

\* the sessions of the application: each runs its script in a thread of its
\* own, on the one connection get_conn caches for all of them
Sesiones == {1, 2}

\* a session that has no planificar_proyecto_auto call in progress: the call's
\* locals, the assignment last returned by the search and the agenda rows
\* that search read
HiloIdle == [plan |-> PlanIdle, asign |-> None, visto |-> <<>>]

HilosIdle == [s \in Sesiones |-> HiloIdle]

(* ------------------------------- inputs -------------------------------- *)

\* service dates (2025-11-03 and the day after)
Fechas == {45962}
\* desired arrival times: 08:00, and 00:10 (travel starts the evening before)
HorasQ == {480, 10}
\* total volumes: 20.0 and 10.0005 m3
Volumenes == {40000, 20001}
\* outbound travel minutes
MinutosIda == {30}
\* discharge minutes
MinutosDescarga == {20}
\* slot-advance intervals written with upsert_param
Intervalos == {0, 15}
\* units registered with upsert_mixer_by_unidad, their capacities and tags
Unidades == {"U-20"}
Capacidades == {20000}
Tipos == {"SANY"}

(* ------------------------------- state --------------------------------- *)

\* seed_data on an empty data file (the fleet scaled to one unit per type)
\* followed by ensure_required_params, whose inserts are all ignored
SeedMixers ==
    << [id |-> 1, unidad_id |-> "", capacidad_m3 |-> 20000, tipo |-> "SANNY",
        habilitado |-> 1],
       [id |-> 2, unidad_id |-> "", capacidad_m3 |-> 17000, tipo |-> "STD",
        habilitado |-> 1] >>

SeedDosif ==
    << [codigo |-> "DF-01", habilitado |-> 1],
       [codigo |-> "DF-06", habilitado |-> 1] >>

SeedParametros ==
    << [nombre |-> "Intervalo_min", valor |-> 15],
       [nombre |-> "Tiempo_descarga_min", valor |-> 20],
       [nombre |-> "Margen_lavado_min", valor |-> 5],
       [nombre |-> "Tiempo_cambio_obra_min", valor |-> 4] >>

Init ==
    /\ agenda = <<>>
    /\ seq_agenda = 0
    /\ mixers = SeedMixers
    /\ dosif = SeedDosif
    /\ parametros = SeedParametros
    /\ plan = PlanIdle
    /\ nplans = 0
    /\ call = [op |-> "none"]
    /\ hilos = HilosIdle

(* ------------------------------ actions -------------------------------- *)

\* planificar_proyecto_auto up to the first test of the while loop: reads
\* the two parameters, refuses when no mixer is eligible
PlanStart(fecha_sel, hora_Q_ini, volumen_total, min_ida, tiempo_descarga_min) ==
    /\ plan.pc = "idle"
    /\ nplans < MaxPlans
    /\ LET g1 == get_param(parametros, "Margen_lavado_min", 5)
           g2 == get_param(g1.params, "Tiempo_cambio_obra_min", 4)
           p0 == [PlanIdle EXCEPT !.fecha = fecha_sel, !.min_ida = min_ida,
                     !.hora_Q_ini = hora_Q_ini,
                     !.tdesc = tiempo_descarga_min, !.total = volumen_total,
                     !.margen = g1.val, !.cambio = g2.val,
                     !.antes = store]
       IN  /\ parametros' = g2.params
           /\ plan' = entrar_al_bucle(mixers, p0)
    /\ nplans' = nplans + 1
    /\ UNCHANGED <<agenda, seq_agenda, mixers, dosif, call, hilos>>

\* one iteration of the while loop, were the next arrival counted from the
\* arrival the search assigned
PlanStep_desde_Q_asignada ==
    /\ plan.pc = "loop"
    /\ plan.restante > Epsilon
    /\ \E r \in {asignar_viaje_factible(agenda, mixers, dosif, parametros,
                    plan.fecha, strftime(plan.Q_actual), plan.restante,
                    plan.min_ida, plan.tdesc, plan.margen, plan.cambio)} :
       \E asign \in {r.asign} :
           /\ parametros' = r.params
           /\ IF asign = None
              THEN /\ plan' = [plan EXCEPT !.pc = "Infeasible"]
                   /\ agenda' = agenda_al_abortar(agenda, plan.antes[1])
                   /\ UNCHANGED seq_agenda
              ELSE /\ Len(agenda) < MaxAgenda
                   /\ agenda' = insert_agenda(agenda,
                          fila_planificada(seq_agenda + 1, asign, plan.fecha,
                                           plan.min_ida))
                   /\ seq_agenda' = seq_agenda + 1
                   /\ plan' = [plan EXCEPT
                          !.creado = Append(@, entrada_creado(asign)),
                          !.Q_actual = asign.Q + plan.tdesc,
                          !.restante = restar_volumen(@, asign.volumen_m3)]
    /\ UNCHANGED <<mixers, dosif, nplans, call, hilos>>

\* one iteration of the while loop: search, then either raise or insert the
\* trip, commit, and advance Q_actual and restante
PlanStep ==
    /\ plan.pc = "loop"
    /\ plan.restante > Epsilon
    /\ \E r \in {asignar_viaje_factible(agenda, mixers, dosif, parametros,
                    plan.fecha, strftime(plan.Q_actual), plan.restante,
                    plan.min_ida, plan.tdesc, plan.margen, plan.cambio)} :
       \E asign \in {r.asign} :
           /\ parametros' = r.params
           /\ IF asign = None
              THEN /\ plan' = [plan EXCEPT !.pc = "Infeasible"]
                   /\ agenda' = agenda_al_abortar(agenda, plan.antes[1])
                   /\ UNCHANGED seq_agenda
              ELSE /\ Len(agenda) < MaxAgenda
                   /\ agenda' = insert_agenda(agenda,
                          fila_planificada(seq_agenda + 1, asign, plan.fecha,
                                           plan.min_ida))
                   /\ seq_agenda' = seq_agenda + 1
                   /\ plan' = [plan EXCEPT
                          !.creado = Append(@, entrada_creado(asign)),
                          !.Q_actual = @ + plan.tdesc,
                          !.restante = restar_volumen(@, asign.volumen_m3)]
    /\ UNCHANGED <<mixers, dosif, nplans, call, hilos>>

\* the while test fails: the list of created trips is returned
PlanDone ==
    /\ plan.pc = "loop"
    /\ ~(plan.restante > Epsilon)
    /\ plan' = [plan EXCEPT !.pc = "ok"]
    /\ UNCHANGED <<agenda, seq_agenda, mixers, dosif, parametros, nplans, call, hilos>>

\* the caller has shown the result or the error; the next operation may run
PlanReturn ==
    /\ plan.pc \in {"ok", "NoEligibleMixers", "ParseError", "Infeasible"}
    /\ plan' = PlanIdle
    /\ UNCHANGED <<agenda, seq_agenda, mixers, dosif, parametros, nplans, call, hilos>>

\* the enable/disable button of the mixers tab
ToggleMixer(i) ==
    /\ plan.pc = "idle"
    /\ call.op = "none"
    /\ i \in 1..Len(mixers)
    /\ mixers' = [mixers EXCEPT ![i].habilitado = IF @ = 1 THEN 0 ELSE 1]
    /\ UNCHANGED <<agenda, seq_agenda, dosif, parametros, plan, nplans, call, hilos>>

\* a call of upsert_mixer_by_unidad
UpsertMixer(unidad_id, capacidad_m3, tipo, habilitado) ==
    /\ plan.pc = "idle"
    /\ mixers' = upsert_mixer_by_unidad(mixers, unidad_id, capacidad_m3, tipo,
                                        habilitado)
    /\ UNCHANGED <<agenda, seq_agenda, dosif, parametros, plan, nplans, call, hilos>>

\* a call of upsert_param
UpsertParam(nombre, valor) ==
    /\ plan.pc = "idle"
    /\ parametros' = upsert_param(parametros, nombre, valor)
    /\ UNCHANGED <<agenda, seq_agenda, mixers, dosif, plan, nplans, call, hilos>>

Next ==
    \/ \E f \in Fechas, q \in HorasQ, v \in Volumenes, i \in MinutosIda,
          d \in MinutosDescarga : PlanStart(f, q, v, i, d)
    \/ PlanStep
    \/ PlanDone
    \/ PlanReturn
    \/ \E i \in 1..Len(mixers) : ToggleMixer(i)
    \/ \E u \in Unidades, c \in Capacidades, t \in Tipos, h \in {0, 1} :
          UpsertMixer(u, c, t, h)
    \/ \E v \in Intervalos : UpsertParam("Intervalo_min", v)

Spec == Init /\ [][Next]_vars

TypeOK ==
    /\ seq_agenda >= Len(agenda)
    /\ plan.pc \in {"idle", "loop", "ok", "NoEligibleMixers", "ParseError",
                   "Infeasible"}

(***************************************************************************)
(* The pure functions on their own: the store is drawn at the start and    *)
(* a behaviour makes one call of one function and records its arguments    *)
(* and result.                                                             *)
(***************************************************************************)

\* an agenda row occupying mixer and dosing unit from S: the dosing unit up
\* to T, the mixer up to X (no travel: Q = R = T, and U = V = W = X)
fila_ocupada(id, fecha, mixer_id, dosif_codigo, S, T, X) ==
    [id |-> id, fecha |-> fecha, hora_Q |-> T, min_viaje_ida |-> 0,
     volumen_m3 |-> 0, estado |-> "Programado", dosif_codigo |-> dosif_codigo,
     mixer_id |-> mixer_id, hora_R |-> T, hora_S |-> S, hora_T |-> T,
     hora_U |-> X, hora_V |-> X, hora_W |-> X, hora_X |-> X,
     ciclo_total_min |-> X - S, min_viaje_regreso |-> 0]

\* the days the drawn bookings and the calls are on
FechasPure == {45962, 45963}

\* bookings a drawn agenda is made of: morning trips on both mixers, the
\* same trip a day later, and a trip right after the first on its mixer
FilasSueltas ==
    << fila_ocupada(1, 45962, 1, "DF-01", 437, 450, 539),
       fila_ocupada(2, 45962, 2, "DF-06", 439, 450, 539),
       fila_ocupada(3, 45963, 1, "DF-01", 437, 450, 539),
       fila_ocupada(4, 45962, 1, "DF-06", 539, 552, 641) >>

\* a day on which both mixers and both dosing units are taken from 00:00 to
\* 23:59, the last time of day a row can hold
AgendaLlena ==
    << fila_ocupada(1, 45962, 1, "DF-01", 0, 1439, 1439),
       fila_ocupada(2, 45962, 2, "DF-06", 0, 1439, 1439) >>

\* the rows of s whose place is in the set keep, in order
Subtabla(s, keep) == SelectSeq(s, LAMBDA r : r.id \in keep)

AgendasPure ==
    {Subtabla(FilasSueltas, keep) : keep \in SUBSET (1..Len(FilasSueltas))}
        \cup {AgendaLlena}

\* candidate windows (S, T, X as times of day) handed to check_conflicts
Ventanas == {<<437, 450, 539>>, <<539, 552, 641>>, <<450, 463, 552>>,
             <<1429, 0, 89>>}
\* window ends handed to _overlap: 10:00, 10:15, 10:30, 10:45, 11:00
Extremos == {600, 615, 630, 645, 660}
\* desired arrivals of a search: 08:00, 00:30 and 09:00
HorasQPure == {480, 30, 540}
\* volumes of a search: 8.5 and 20.0 m3
VolumenesPure == {17000, 40000}

InitPure ==
    /\ agenda \in AgendasPure
    /\ seq_agenda = Len(FilasSueltas)
    /\ mixers = SeedMixers
    /\ dosif = SeedDosif
    /\ parametros \in {SeedParametros, upsert_param(SeedParametros, "Intervalo_min", 0)}
    /\ plan = PlanIdle
    /\ nplans = 0
    /\ call = [op |-> "none"]
    /\ hilos = HilosIdle

\* a call of _overlap
CallOverlap(a0, a1, b0, b1) ==
    /\ call.op = "none"
    /\ call' = [op |-> "overlap", a0 |-> a0, a1 |-> a1, b0 |-> b0, b1 |-> b1,
                ret |-> _overlap(a0, a1, b0, b1)]
    /\ UNCHANGED <<agenda, seq_agenda, mixers, dosif, parametros, plan, nplans, hilos>>

\* a call of check_conflicts with the window w put on the date, as
\* asignar_viaje_factible does
CallCheck(fecha_str, mixer_id, dosif_codigo, w) ==
    /\ call.op = "none"
    /\ call' = [op |-> "check", fecha |-> fecha_str, mixer_id |-> mixer_id,
                dosif |-> dosif_codigo,
                S |-> _dt(fecha_str, w[1]), T |-> _dt(fecha_str, w[2]),
                X |-> _dt(fecha_str, w[3]),
                ret |-> check_conflicts(agenda, fecha_str, mixer_id, dosif_codigo,
                            _dt(fecha_str, w[1]), _dt(fecha_str, w[2]),
                            _dt(fecha_str, w[3]), 0)]
    /\ UNCHANGED <<agenda, seq_agenda, mixers, dosif, parametros, plan, nplans, hilos>>

\* booking ids given as exclude_agenda_id
Excluidos == {1, 4}

\* a call of check_conflicts for an edit of booking exclude_agenda_id
CallCheckExclude(fecha_str, mixer_id, dosif_codigo, w, exclude_agenda_id) ==
    /\ call.op = "none"
    /\ call' = [op |-> "check_exclude", fecha |-> fecha_str, mixer_id |-> mixer_id,
                dosif |-> dosif_codigo,
                S |-> _dt(fecha_str, w[1]), T |-> _dt(fecha_str, w[2]),
                X |-> _dt(fecha_str, w[3]),
                exclude |-> exclude_agenda_id,
                ret |-> check_conflicts(agenda, fecha_str, mixer_id, dosif_codigo,
                            _dt(fecha_str, w[1]), _dt(fecha_str, w[2]),
                            _dt(fecha_str, w[3]), exclude_agenda_id)]
    /\ UNCHANGED <<agenda, seq_agenda, mixers, dosif, parametros, plan, nplans, hilos>>

\* names and defaults given to get_param: a seeded parameter and one the
\* store does not hold, each in two spellings
NombresParam == {"Intervalo_min", "INTERVALO_MIN", "Bombas_min", "BOMBAS_MIN"}
DefaultsParam == {7, 9}

\* a call of get_param with a default
CallGetParam(name, default) ==
    /\ call.op = "none"
    /\ \E g \in {get_param(parametros, name, default)} :
           /\ parametros' = g.params
           /\ call' = [op |-> "get_param", name |-> name, default |-> default,
                       ret |-> g.val, antes |-> parametros]
    /\ UNCHANGED <<agenda, seq_agenda, mixers, dosif, plan, nplans, hilos>>

\* a call of get_param with no default
CallGetParamSinDefault(name) ==
    /\ call.op = "none"
    /\ \E g \in {get_param_sin_default(parametros, name)} :
           /\ parametros' = g.params
           /\ call' = [op |-> "get_param_sin_default", name |-> name,
                       ret |-> g.val, error |-> g.error, antes |-> parametros]
    /\ UNCHANGED <<agenda, seq_agenda, mixers, dosif, plan, nplans, hilos>>

\* a later call of get_param, after the one recorded
CallGetParamLater(name, default) ==
    /\ call.op = "get_param"
    /\ \E g \in {get_param(parametros, name, default)} :
           /\ parametros' = g.params
           /\ call' = [op |-> "get_param_later", name |-> call.name,
                       default |-> call.default, ret |-> call.ret,
                       antes |-> call.antes, medio |-> parametros,
                       name2 |-> name, default2 |-> default, ret2 |-> g.val]
    /\ UNCHANGED <<agenda, seq_agenda, mixers, dosif, plan, nplans, hilos>>

\* a call of asignar_viaje_factible
CallSearch(fecha_sel, Q_str, volumen_m3, min_ida, tiempo_descarga_min, margen_lavado_min, tiempo_cambio_obra_min) ==
    LET r == asignar_viaje_factible(agenda, mixers, dosif, parametros, fecha_sel,
                 Q_str, volumen_m3, min_ida, tiempo_descarga_min,
                 margen_lavado_min, tiempo_cambio_obra_min)
    IN  /\ call.op = "none"
        /\ call' = [op |-> "search", fecha |-> fecha_sel, Q_str |-> Q_str,
                    volumen_m3 |-> volumen_m3, min_ida |-> min_ida,
                    tdesc |-> tiempo_descarga_min, margen |-> margen_lavado_min,
                    cambio |-> tiempo_cambio_obra_min, ret |-> r.asign]
        /\ parametros' = r.params
        /\ UNCHANGED <<agenda, seq_agenda, mixers, dosif, plan, nplans, hilos>>

\* arguments of a call of calcular_tiempos: arrivals 08:00, 00:10 and 23:50;
\* volumes 8.5, 12.0, 1.0, 10.0005 and 0.0005 m3
HorasQCalc == {480, 10, 1430}
VolumenesCalc == {17000, 24000, 2000, 20001, 1}
MinutosIdaCalc == {0, 30}
MargenesCalc == {5, 10}

\* a call of calcular_tiempos
CallCompute(hora_Q, min_viaje_ida, volumen_m3, tiempo_descarga_min, margen_lavado_min, tiempo_cambio_obra_min) ==
    /\ call.op = "none"
    /\ call' = [op |-> "compute", hora_Q |-> hora_Q, min_ida |-> min_viaje_ida,
                volumen_m3 |-> volumen_m3, tdesc |-> tiempo_descarga_min,
                margen |-> margen_lavado_min, cambio |-> tiempo_cambio_obra_min,
                ret |-> calcular_tiempos(hora_Q, min_viaje_ida, volumen_m3,
                            tiempo_descarga_min, margen_lavado_min,
                            tiempo_cambio_obra_min),
                antes |-> store]
    /\ UNCHANGED <<agenda, seq_agenda, mixers, dosif, parametros, plan, nplans, hilos>>

NextPure ==
    \/ \E q \in HorasQCalc, i \in MinutosIdaCalc, v \in VolumenesCalc,
          d \in MinutosDescarga, m \in MargenesCalc :
          CallCompute(q, i, v, d, m, 4)
    \/ \E a0 \in Extremos, a1 \in Extremos, b0 \in Extremos, b1 \in Extremos :
          CallOverlap(a0, a1, b0, b1)
    \/ \E f \in FechasPure, m \in 1..Len(mixers), d \in {"DF-01", "DF-06"},
          w \in Ventanas : CallCheck(f, m, d, w)
    \/ \E f \in FechasPure, m \in 1..Len(mixers), d \in {"DF-01", "DF-06"},
          w \in Ventanas, e \in Excluidos : CallCheckExclude(f, m, d, w, e)
    \/ \E f \in FechasPure, q \in HorasQPure, v \in VolumenesPure,
          i \in MinutosIda, d \in MinutosDescarga :
          CallSearch(f, q, v, i, d, 5, 4)
    \/ \E i \in 1..Len(mixers) : ToggleMixer(i)
    \/ \E n \in NombresParam, d \in DefaultsParam : CallGetParam(n, d)
    \/ \E n \in NombresParam, d \in DefaultsParam : CallGetParamLater(n, d)
    \/ \E n \in NombresParam : CallGetParamSinDefault(n)

SpecPure == InitPure /\ [][NextPure]_vars

(***************************************************************************)
(* The planner and direct calls of the conflict detector and of the        *)
(* search on the same store: what each of them writes.                     *)
(***************************************************************************)

\* the dosing registry with DF-01 switched off in the data file
DosifSinDF01 ==
    << [codigo |-> "DF-01", habilitado |-> 0],
       [codigo |-> "DF-06", habilitado |-> 1] >>

InitEfectos ==
    /\ agenda = <<>>
    /\ seq_agenda = 0
    /\ mixers = SeedMixers
    /\ dosif \in {SeedDosif, DosifSinDF01}
    /\ parametros = SeedParametros
    /\ plan = PlanIdle
    /\ nplans = 0
    /\ call = [op |-> "none"]
    /\ hilos = HilosIdle

NextEfectos ==
    \/ \E i \in 1..Len(mixers) : ToggleMixer(i)
    \/ \E f \in Fechas, v \in Volumenes, i \in MinutosIda,
          d \in MinutosDescarga : PlanStart(f, 480, v, i, d)
    \/ PlanStep
    \/ PlanDone
    \/ PlanReturn
    \/ \E f \in Fechas, m \in 1..Len(mixers), d \in {"DF-01", "DF-06"},
          w \in Ventanas : CallCheck(f, m, d, w)
    \/ \E f \in Fechas, q \in HorasQPure, v \in VolumenesPure,
          i \in MinutosIda, d \in MinutosDescarga :
          CallSearch(f, q, v, i, d, 5, 4)

SpecEfectos == InitEfectos /\ [][NextEfectos]_vars

(***************************************************************************)
(* The calculator called twice with the same arguments while the planner   *)
(* and the parameter editor work on the store in between.                  *)
(***************************************************************************)

\* arguments of the repeated call: arrivals 08:00 and 23:50, 10.0005 m3
HorasQRepetir == {480, 1430}
VolumenesRepetir == {20001}

\* a second call of calcular_tiempos with the arguments of the one recorded
CallComputeLater ==
    /\ call.op = "compute"
    /\ call' = [op |-> "compute_later", hora_Q |-> call.hora_Q,
                min_ida |-> call.min_ida, volumen_m3 |-> call.volumen_m3,
                tdesc |-> call.tdesc, margen |-> call.margen,
                cambio |-> call.cambio, ret |-> call.ret, antes |-> call.antes,
                medio |-> store,
                ret2 |-> calcular_tiempos(call.hora_Q, call.min_ida,
                             call.volumen_m3, call.tdesc, call.margen,
                             call.cambio)]
    /\ UNCHANGED <<agenda, seq_agenda, mixers, dosif, parametros, plan, nplans, hilos>>

NextCalc ==
    \/ \E q \in HorasQRepetir, i \in MinutosIda, v \in VolumenesRepetir,
          d \in MinutosDescarga, m \in MargenesCalc :
          CallCompute(q, i, v, d, m, 4)
    \/ CallComputeLater
    \/ \E f \in Fechas, v \in Volumenes, i \in MinutosIda,
          d \in MinutosDescarga : PlanStart(f, 480, v, i, d)
    \/ PlanStep
    \/ PlanDone
    \/ PlanReturn
    \/ \E m \in MargenesCalc : UpsertParam("Margen_lavado_min", m)

SpecCalc == Init /\ [][NextCalc]_vars

(***************************************************************************)
(* The planner on its own, its loop running to the end: the function is    *)
(* straight-line code of one thread, so a started call keeps taking its    *)
(* next step.                                                              *)
(***************************************************************************)

NextPlan ==
    \/ \E f \in Fechas, q \in HorasQ, v \in Volumenes, i \in MinutosIda,
          d \in MinutosDescarga : PlanStart(f, q, v, i, d)
    \/ PlanStep
    \/ PlanDone
    \/ PlanReturn
    \/ \E i \in 1..Len(mixers) : ToggleMixer(i)

\* the states in which the loop can run its next iteration: wherever
\* PlanStep is enabled this holds
PlanStepPuede ==
    plan.pc = "loop" /\ plan.restante > Epsilon /\ Len(agenda) < MaxAgenda

\* weak fairness of the two steps of the loop; for PlanStep it is written
\* out, with PlanStepPuede where ENABLED <<PlanStep>>_vars would stand
SpecPlan ==
    /\ Init /\ [][NextPlan]_vars
    /\ WF_vars(PlanDone)
    /\ ([]<>(~PlanStepPuede) \/ []<><<PlanStep>>_vars)

(***************************************************************************)
(* A parameter written with upsert_param and read back with get_param.     *)
(***************************************************************************)

\* parameter tables a write can find: the seeded one, and the seeded one
\* after a read with default has created "Bombas_min" in either spelling
TablasParam ==
    {SeedParametros, get_param(SeedParametros, "Bombas_min", 7).params,
     get_param(SeedParametros, "BOMBAS_MIN", 7).params}

\* values written
ValoresParam == {0, 30}

InitParam ==
    /\ agenda = <<>>
    /\ seq_agenda = 0
    /\ mixers = SeedMixers
    /\ dosif = SeedDosif
    /\ parametros \in TablasParam
    /\ plan = PlanIdle
    /\ nplans = 0
    /\ call = [op |-> "none"]
    /\ hilos = HilosIdle

\* a call of upsert_param
CallUpsertParam(nombre, valor) ==
    /\ call.op = "none"
    /\ parametros' = upsert_param(parametros, nombre, valor)
    /\ call' = [op |-> "upsert_param", nombre |-> nombre, valor |-> valor,
                antes |-> parametros]
    /\ UNCHANGED <<agenda, seq_agenda, mixers, dosif, plan, nplans, hilos>>

\* a call of get_param right after the upsert_param recorded
CallGetParamTrasUpsert(name, default) ==
    /\ call.op = "upsert_param"
    /\ \E g \in {get_param(parametros, name, default)} :
           /\ parametros' = g.params
           /\ call' = [op |-> "upsert_get", nombre |-> call.nombre,
                       valor |-> call.valor, antes |-> call.antes,
                       name2 |-> name, default |-> default, ret |-> g.val]
    /\ UNCHANGED <<agenda, seq_agenda, mixers, dosif, plan, nplans, hilos>>

NextParam ==
    \/ \E n \in NombresParam, v \in ValoresParam : CallUpsertParam(n, v)
    \/ \E n \in NombresParam, d \in DefaultsParam : CallGetParamTrasUpsert(n, d)

SpecParam == InitParam /\ [][NextParam]_vars

(***************************************************************************)
(* Late deliveries: the planner and the search on a store that already     *)
(* holds two trips arriving at 23:50.                                      *)
(***************************************************************************)

\* the assignment planificar_proyecto_auto gets on agenda ag for 10.0005 m3
\* wanted at 23:50 on 2025-11-03, travel 30, discharge 20: the search finds
\* it on its first pass
asign_de_noche(ag) ==
    intento(ag, mixers_auto_std(SeedMixers), dosif_habilitadas(SeedDosif),
            45962, _dt(45962, 1430), 20001, 30, 20, 5, 4)

\* desired arrivals (23:50, 08:00) and volumes (10.0005, 8.5 m3) asked for
HorasQNoche == {1430, 480}
VolumenesNoche == {20001, 17000}

\* the seeded store after that call has run twice
InitNoche ==
    /\ \E a1 \in {asign_de_noche(<<>>)} :
       \E f1 \in {fila_planificada(1, a1, 45962, 30)} :
       \E a2 \in {asign_de_noche(<<f1>>)} :
       \E f2 \in {fila_planificada(2, a2, 45962, 30)} :
           agenda = <<f1, f2>>
    /\ seq_agenda = 2
    /\ mixers = SeedMixers
    /\ dosif = SeedDosif
    /\ parametros = SeedParametros
    /\ plan = PlanIdle
    /\ nplans = 0
    /\ call = [op |-> "none"]
    /\ hilos = HilosIdle

NextNoche ==
    \/ \E f \in Fechas, q \in HorasQNoche, v \in VolumenesNoche,
          i \in MinutosIda, d \in MinutosDescarga : PlanStart(f, q, v, i, d)
    \/ PlanStep
    \/ PlanDone
    \/ PlanReturn
    \/ \E i \in 1..Len(mixers) : ToggleMixer(i)
    \/ \E f \in Fechas, q \in HorasQNoche, v \in VolumenesNoche,
          i \in MinutosIda, d \in MinutosDescarga :
          CallSearch(f, q, v, i, d, 5, 4)

SpecNoche == InitNoche /\ [][NextNoche]_vars

(***************************************************************************)
(* The search one pass at a time: asignar_viaje_factible with its locals   *)
(* (intentos, Q_dt, intervalo_min and the two lists read before the loop)  *)
(* held in the call record while the while loop runs.                      *)
(***************************************************************************)

\* lines 218 to 225: the parameter and the two lists are read, the search
\* gives up at once when a list is empty, otherwise the loop is entered
BuscarEntrar(fecha_sel, Q_str, volumen_m3, min_ida, tiempo_descarga_min, margen_lavado_min, tiempo_cambio_obra_min) ==
    /\ call.op = "none"
    /\ \E g \in {get_param(parametros, "Intervalo_min", 15)} :
       \E vacio \in {mixers_auto_std(mixers) = <<>> \/ dosif_habilitadas(dosif) = <<>>} :
           /\ parametros' = g.params
           /\ call' = [op |-> IF vacio THEN "search_fin" ELSE "search_loop",
                       fecha |-> fecha_sel, Q_str |-> Q_str,
                       volumen_m3 |-> volumen_m3, min_ida |-> min_ida,
                       tdesc |-> tiempo_descarga_min,
                       margen |-> margen_lavado_min,
                       cambio |-> tiempo_cambio_obra_min,
                       intervalo_min |-> g.val,
                       lista_mixers |-> mixers_auto_std(mixers),
                       dosifs |-> dosif_habilitadas(dosif),
                       Q_dt |-> _dt(fecha_sel, Q_str), intentos |-> 0,
                       en_bucle |-> ~vacio, ret |-> None]
    /\ UNCHANGED <<agenda, seq_agenda, mixers, dosif, plan, nplans, hilos>>

\* one pass of the while loop, were it to leave the counter alone
BuscarPase_sin_contar ==
    /\ call.op = "search_loop"
    /\ call.intentos < MaxIntentos
    /\ \E r \in {intento(agenda, call.lista_mixers, call.dosifs, call.fecha,
                    call.Q_dt, call.volumen_m3, call.min_ida, call.tdesc,
                    call.margen, call.cambio)} :
           call' = IF r # None
                   THEN [call EXCEPT !.op = "search_fin", !.ret = r]
                   ELSE [call EXCEPT !.Q_dt = @ + call.intervalo_min]
    /\ UNCHANGED <<agenda, seq_agenda, mixers, dosif, parametros, plan, nplans, hilos>>

\* one pass of the while loop: the two nested for loops at the anchor Q_dt,
\* then either the return of the combination found or the advance of the
\* anchor and of the counter
BuscarPase ==
    /\ call.op = "search_loop"
    /\ call.intentos < MaxIntentos
    /\ \E r \in {intento(agenda, call.lista_mixers, call.dosifs, call.fecha,
                    call.Q_dt, call.volumen_m3, call.min_ida, call.tdesc,
                    call.margen, call.cambio)} :
           call' = IF r # None
                   THEN [call EXCEPT !.op = "search_fin", !.ret = r]
                   ELSE [call EXCEPT !.Q_dt = @ + call.intervalo_min,
                                     !.intentos = @ + 1]
    /\ UNCHANGED <<agenda, seq_agenda, mixers, dosif, parametros, plan, nplans, hilos>>

\* the while test fails: "return None" after the loop
BuscarAgotar ==
    /\ call.op = "search_loop"
    /\ ~(call.intentos < MaxIntentos)
    /\ call' = [call EXCEPT !.op = "search_fin", !.ret = None]
    /\ UNCHANGED <<agenda, seq_agenda, mixers, dosif, parametros, plan, nplans, hilos>>

\* the store a search starts on: no booking, the four loose bookings, or the
\* fully booked day; Intervalo_min as seeded or set to 0
InitBuscar ==
    /\ agenda \in {<<>>, FilasSueltas, AgendaLlena}
    /\ seq_agenda = Len(FilasSueltas)
    /\ mixers = SeedMixers
    /\ dosif = SeedDosif
    /\ parametros \in {SeedParametros, upsert_param(SeedParametros, "Intervalo_min", 0)}
    /\ plan = PlanIdle
    /\ nplans = 0
    /\ call = [op |-> "none"]
    /\ hilos = HilosIdle

NextBuscar ==
    \/ \E f \in Fechas, q \in HorasQPure, v \in VolumenesPure,
          i \in MinutosIda, d \in MinutosDescarga :
          BuscarEntrar(f, q, v, i, d, 5, 4)
    \/ BuscarPase
    \/ BuscarAgotar
    \/ \E i \in 1..Len(mixers) : ToggleMixer(i)

\* the loop is straight-line code of one thread: a search that has started
\* keeps taking its next step
SpecBuscar ==
    InitBuscar /\ [][NextBuscar]_vars /\ WF_vars(BuscarPase) /\ WF_vars(BuscarAgotar)

(***************************************************************************)
(* Editing a booking: the "Guardar cambios" button of the calendar tab,    *)
(* which calls recalc_and_update_agenda.  (The "Guardar viaje" button of   *)
(* the single-trip tab is created only inside "if submitted:", the branch  *)
(* taken by the run that follows a submit of the planner form; the run     *)
(* that follows a click on the button does not take that branch, so its    *)
(* handler never runs and there is no action for it.)                      *)
(***************************************************************************)

\* the row after the UPDATE of recalc_and_update_agenda
fila_editada(fila, fecha_str, hora_Q, min_viaje_ida, volumen_m3, dosif_codigo, mixer_id, t) ==
    [fila EXCEPT !.fecha = fecha_str, !.hora_Q = hora_Q,
                 !.min_viaje_ida = min_viaje_ida, !.volumen_m3 = volumen_m3,
                 !.mixer_id = mixer_id,
                 !.hora_R = strftime(t.R), !.hora_S = strftime(t.S),
                 !.hora_T = strftime(t.T), !.hora_U = strftime(t.U),
                 !.hora_V = strftime(t.V), !.hora_W = strftime(t.W),
                 !.hora_X = strftime(t.X),
                 !.estado = "Programado", !.ciclo_total_min = t.X - t.S,
                 !.min_viaje_regreso = min_viaje_ida,
                 !.dosif_codigo = dosif_codigo]

\* recalc_and_update_agenda: the agenda and the parameter table after the
\* call, and the error it raised
recalc_and_update_agenda(ag, params, agenda_id, fecha_str, hora_Q, min_viaje_ida, volumen_m3, dosif_codigo, mixer_id) ==
    LET g1 == get_param(params, "Tiempo_descarga_min", 20)
        g2 == get_param(g1.params, "Margen_lavado_min", 10)
        g3 == get_param(g2.params, "Tiempo_cambio_obra_min", 5)
        t == calcular_tiempos(hora_Q, min_viaje_ida, volumen_m3,
                              g1.val, g2.val, g3.val)
    IN  IF ~es_hhmm(hora_Q)
        THEN [agenda |-> ag, params |-> g3.params, error |-> "ParseError"]
        ELSE [agenda |-> [i \in 1..Len(ag) |->
                             IF ag[i].id = agenda_id
                             THEN fila_editada(ag[i], fecha_str, hora_Q,
                                               min_viaje_ida, volumen_m3,
                                               dosif_codigo, mixer_id, t)
                             ELSE ag[i]],
              params |-> g3.params, error |-> "none"]

\* the mixers the edit form offers for the row: the enabled ones, or the
\* row's own mixer when none is enabled
mix_opts(mx, fila) ==
    LET hab == {mx[k].id : k \in {n \in 1..Len(mx) : mx[n].habilitado = 1}}
    IN  IF hab = {} THEN {fila.mixer_id} ELSE hab

\* times typed in a form: 08:00, 08:20, and "25:00", which is no time of day
HorasForm == {480, 500, 1500}
\* volumes the edit form takes: 8.5 and 12.0 m3
VolumenesEdit == {17000, 24000}

\* "Guardar cambios" on row k of the agenda
EditSave(k, fecha_new, hora_Q_new, min_ida_new, vol_new, dosif_new, mixer_new) ==
    /\ plan.pc = "idle"
    /\ call.op = "none"
    /\ k \in 1..Len(agenda)
    /\ mixer_new \in mix_opts(mixers, agenda[k])
    /\ \E r \in {recalc_and_update_agenda(agenda, parametros, agenda[k].id,
                     fecha_new, hora_Q_new, min_ida_new, vol_new, dosif_new,
                     mixer_new)} :
           /\ agenda' = r.agenda
           /\ parametros' = r.params
           /\ call' = [op |-> "edit", id |-> agenda[k].id, fecha |-> fecha_new,
                       hora_Q |-> hora_Q_new, min_ida |-> min_ida_new,
                       volumen_m3 |-> vol_new, dosif |-> dosif_new,
                       mixer_id |-> mixer_new, antes |-> agenda,
                       error |-> r.error]
    /\ UNCHANGED <<seq_agenda, mixers, dosif, plan, nplans, hilos>>

\* the delete, were it to keep the row and tag it as deleted
eliminar_viaje_marca(ag, agenda_id) ==
    [i \in 1..Len(ag) |->
        IF ag[i].id = agenda_id THEN [ag[i] EXCEPT !.estado = "Eliminado"]
        ELSE ag[i]]

\* DELETE FROM agenda WHERE id=?
eliminar_viaje(ag, agenda_id) == SelectSeq(ag, LAMBDA r : r.id # agenda_id)

\* "Eliminar viaje" on row k of the agenda, the confirmation box ticked
EliminarViaje(k) ==
    /\ plan.pc = "idle"
    /\ k \in 1..Len(agenda)
    /\ agenda' = eliminar_viaje(agenda, agenda[k].id)
    /\ UNCHANGED <<seq_agenda, mixers, dosif, parametros, plan, nplans, call, hilos>>

\* the time and the volume typed in the edit form of a booking's life:
\* 08:00 or 08:20, and 8.5 m3; the volume planned: 10.0005 m3
HorasVida == {480, 500}
VolumenesVida == {17000}
VolumenesPlanVida == {20001}

\* the life of a booking: planned, edited, deleted
NextVida ==
    \/ \E f \in Fechas, v \in VolumenesPlanVida, i \in MinutosIda,
          d \in MinutosDescarga : PlanStart(f, 480, v, i, d)
    \/ PlanStep
    \/ PlanDone
    \/ PlanReturn
    \/ \E k \in 1..Len(agenda), f \in Fechas, q \in HorasVida, i \in MinutosIda,
          v \in VolumenesVida, d \in {"DF-01", "DF-06"}, m \in 1..Len(mixers) :
          EditSave(k, f, q, i, v, d, m)
    \/ \E k \in 1..Len(agenda) : EliminarViaje(k)

SpecVida == Init /\ [][NextVida]_vars

\* discharge minutes typed in the planner form (it takes 5 to 120)
MinutosDescargaForm == {20, 30}

\* "Guardar cambios" on row k with the form left as it opened: every field
\* shows the value the row holds
EditSaveSinCambios(k) ==
    /\ k \in 1..Len(agenda)
    /\ EditSave(k, agenda[k].fecha, agenda[k].hora_Q, agenda[k].min_viaje_ida,
                agenda[k].volumen_m3, agenda[k].dosif_codigo, agenda[k].mixer_id)

\* planning with either discharge time, then saving a booking unchanged
NextReedit ==
    \/ \E f \in Fechas, v \in Volumenes, i \in MinutosIda,
          d \in MinutosDescargaForm : PlanStart(f, 480, v, i, d)
    \/ PlanStep
    \/ PlanDone
    \/ PlanReturn
    \/ \E i \in 1..Len(mixers) : ToggleMixer(i)
    \/ \E k \in 1..Len(agenda) : EditSaveSinCambios(k)

SpecReedit == Init /\ [][NextReedit]_vars

NextManual ==
    \/ \E f \in Fechas, q \in HorasForm, v \in Volumenes, i \in MinutosIda,
          d \in MinutosDescarga : PlanStart(f, q, v, i, d)
    \/ PlanStep
    \/ PlanDone
    \/ PlanReturn
    \/ \E i \in 1..Len(mixers) : ToggleMixer(i)
    \/ \E k \in 1..Len(agenda), f \in Fechas, q \in HorasForm, i \in MinutosIda,
          v \in VolumenesEdit, d \in {"DF-01", "DF-06"}, m \in 1..Len(mixers) :
          EditSave(k, f, q, i, v, d, m)

SpecManual == Init /\ [][NextManual]_vars

(***************************************************************************)
(* Two sessions plan at once.  Each session's thread runs                  *)
(* planificar_proyecto_auto on the shared connection; a thread can be      *)
(* preempted between the search, which only reads the agenda, and the      *)
(* INSERT that follows it, and no lock or transaction spans the two.       *)
(***************************************************************************)

\* desired arrivals and volumes of the sessions' calls: 08:00 and 08:20;
\* 8.5 and 20.0 m3
HorasQRace == {480, 500}
VolumenesRace == {17000, 40000}

InitRace ==
    /\ agenda = <<>>
    /\ seq_agenda = 0
    /\ mixers = SeedMixers
    /\ dosif = SeedDosif
    /\ parametros = SeedParametros
    /\ plan = PlanIdle
    /\ nplans = 0
    /\ call = [op |-> "none"]
    /\ hilos = HilosIdle

\* session s enters planificar_proyecto_auto and reaches the while loop
SesionStart(s, fecha_sel, hora_Q_ini, volumen_total, min_ida, tiempo_descarga_min) ==
    /\ hilos[s].plan.pc = "idle"
    /\ LET g1 == get_param(parametros, "Margen_lavado_min", 5)
           g2 == get_param(g1.params, "Tiempo_cambio_obra_min", 4)
           p0 == [PlanIdle EXCEPT !.fecha = fecha_sel, !.min_ida = min_ida,
                     !.hora_Q_ini = hora_Q_ini,
                     !.tdesc = tiempo_descarga_min, !.total = volumen_total,
                     !.margen = g1.val, !.cambio = g2.val,
                     !.antes = store]
       IN  /\ parametros' = g2.params
           /\ hilos' = [hilos EXCEPT ![s].plan = entrar_al_bucle(mixers, p0)]
    /\ UNCHANGED <<agenda, seq_agenda, mixers, dosif, plan, nplans, call>>

\* session s tests the while condition and runs asignar_viaje_factible on
\* the agenda as it is now; a failed search raises
SesionBuscar(s) ==
    /\ hilos[s].plan.pc = "loop"
    /\ hilos[s].plan.restante > Epsilon
    /\ \E r \in {asignar_viaje_factible(agenda, mixers, dosif, parametros,
                    hilos[s].plan.fecha, strftime(hilos[s].plan.Q_actual),
                    hilos[s].plan.restante, hilos[s].plan.min_ida,
                    hilos[s].plan.tdesc, hilos[s].plan.margen,
                    hilos[s].plan.cambio)} :
           /\ parametros' = r.params
           /\ hilos' = [hilos EXCEPT
                  ![s].plan.pc = IF r.asign = None THEN "Infeasible" ELSE "insert",
                  ![s].asign = r.asign,
                  ![s].visto = agenda]
    /\ UNCHANGED <<agenda, seq_agenda, mixers, dosif, plan, nplans, call>>

\* session s inserts the trip its search returned, commits, and advances
\* Q_actual and restante
SesionInsertar(s) ==
    /\ hilos[s].plan.pc = "insert"
    /\ Len(agenda) < MaxAgenda
    /\ agenda' = insert_agenda(agenda,
                     fila_planificada(seq_agenda + 1, hilos[s].asign,
                                      hilos[s].plan.fecha, hilos[s].plan.min_ida))
    /\ seq_agenda' = seq_agenda + 1
    /\ hilos' = [hilos EXCEPT
           ![s].plan.pc = "loop",
           ![s].plan.creado = Append(@, entrada_creado(hilos[s].asign)),
           ![s].plan.Q_actual = @ + hilos[s].plan.tdesc,
           ![s].plan.restante = restar_volumen(@, hilos[s].asign.volumen_m3)]
    /\ UNCHANGED <<mixers, dosif, parametros, plan, nplans, call>>

\* the while test of session s fails: its call returns the created trips
SesionDone(s) ==
    /\ hilos[s].plan.pc = "loop"
    /\ ~(hilos[s].plan.restante > Epsilon)
    /\ hilos' = [hilos EXCEPT ![s].plan.pc = "ok"]
    /\ UNCHANGED <<agenda, seq_agenda, mixers, dosif, parametros, plan, nplans, call>>

NextRace ==
    \/ \E s \in Sesiones, f \in Fechas, q \in HorasQRace, v \in VolumenesRace,
          i \in MinutosIda, d \in MinutosDescarga : SesionStart(s, f, q, v, i, d)
    \/ \E s \in Sesiones : SesionBuscar(s)
    \/ \E s \in Sesiones : SesionInsertar(s)
    \/ \E s \in Sesiones : SesionDone(s)

SpecRace == InitRace /\ [][NextRace]_vars

(***************************************************************************)
(* Properties                                                              *)
(***************************************************************************)

\* two half-open windows share an instant
Solapan(a0, a1, b0, b1) == \E t \in a0..(a1 - 1) : b0 <= t /\ t < b1

\* the mixer row with identifier id
MixerDe(mx, id) == CHOOSE m \in SeqToSet(mx) : m.id = id

\* the registry classifies the mixer as high-capacity
AltaCapacidad(m) == m.tipo \in {"SANY", "SANNY"}

RECURSIVE SumaM3(_)
SumaM3(creado) ==
    IF creado = <<>> THEN 0 ELSE Head(creado).m3 + SumaM3(Tail(creado))

\* the agenda row and the returned entry describe the same trip
MismoViaje(a, c) ==
    /\ a.mixer_id = c.Mixer_ID /\ a.dosif_codigo = c.Dosif /\ a.volumen_m3 = c.m3
    /\ a.hora_Q = c.Q_llega /\ a.hora_R = c.R_sale /\ a.hora_S = c.S_ini_carga
    /\ a.hora_T = c.T_fin_carga /\ a.hora_U = c.U_fin_desc
    /\ a.hora_X = c.X_fin_total

C2_MilestoneOrder ==
    \A i \in 1..Len(agenda) :
        LET a == agenda[i]
        IN  /\ a.hora_S <= a.hora_T /\ a.hora_T = a.hora_R /\ a.hora_R <= a.hora_Q
            /\ a.hora_Q <= a.hora_U /\ a.hora_U <= a.hora_V
            /\ a.hora_V <= a.hora_W /\ a.hora_W <= a.hora_X

\* every minute of fecha from 00:00 up to 23:59 (the last time of day a row
\* can hold) is inside a booked window of every enabled mixer and of every
\* enabled dosing unit
FullyBooked(fecha) ==
    /\ \A k \in 1..Len(mixers) : mixers[k].habilitado = 1 =>
          \A t \in 0..(MinDia - 2) : \E i \in 1..Len(agenda) :
              /\ agenda[i].fecha = fecha /\ agenda[i].mixer_id = mixers[k].id
              /\ agenda[i].hora_S <= t /\ t < agenda[i].hora_X
    /\ \A k \in 1..Len(dosif) : dosif[k].habilitado = 1 =>
          \A t \in 0..(MinDia - 2) : \E i \in 1..Len(agenda) :
              /\ agenda[i].fecha = fecha /\ agenda[i].dosif_codigo = dosif[k].codigo
              /\ agenda[i].hora_S <= t /\ t < agenda[i].hora_T

\* C3: on a date whose mixers and dosing units are booked for the whole day
\* the search returns Infeasible for every desired arrival time.
C3_FullyBookedInfeasible ==
    (call.op = "search" /\ FullyBooked(call.fecha)) => call.ret = None

\* C4: no booking created by planProject is on a mixer the registry
\* classifies as high-capacity.
C4_NoHighCapacity ==
    \A i \in 1..Len(plan.creado) :
        ~AltaCapacidad(MixerDe(mixers, plan.creado[i].Mixer_ID))

\* every trip of a finished call fits its mixer
C5_TripsFit ==
    \A i \in 1..Len(plan.creado) :
        plan.creado[i].m3 <= MixerDe(mixers, plan.creado[i].Mixer_ID).capacidad_m3

\* C5 (as stated): on success every trip is at most its mixer's capacity and
\* the trip volumes sum to exactly the total volume.
C5_SumExact ==
    plan.pc = "ok" => C5_TripsFit /\ SumaM3(plan.creado) = plan.total

\* C5 (amended): on success every trip is at most its mixer's capacity and
\* the trip volumes sum to the total volume less a remainder of at most
\* 0.001 m3.
C5_SumWithinEpsilon ==
    plan.pc = "ok" =>
        /\ C5_TripsFit
        /\ SumaM3(plan.creado) <= plan.total
        /\ plan.total - SumaM3(plan.creado) <= Epsilon

\* a successful call of several trips
C5_Witness == plan.pc = "ok" /\ Len(plan.creado) >= 2

\* the mixers and dosing units of a search in the order the claim gives:
\* capacity descending then identifier ascending; codes ascending
EnOrden(ms, ds) ==
    /\ \A i \in 1..Len(ms), j \in 1..Len(ms) : i < j =>
          \/ ms[i].capacidad_m3 > ms[j].capacidad_m3
          \/ ms[i].capacidad_m3 = ms[j].capacidad_m3 /\ ms[i].id < ms[j].id
    /\ \A i \in 1..Len(ds), j \in 1..Len(ds) : i < j =>
          codigo_rank(ds[i]) < codigo_rank(ds[j])

\* combination (k, i, j) of the recorded search: pass k, mixer ms[i], dosing
\* unit ds[j]; its anchor, its volume and whether both conflict lists are
\* empty
AnclaDe(k) ==
    _dt(call.fecha, call.Q_str)
        + k * get_param(parametros, "Intervalo_min", 15).val

VolumenDe(ms, i) == Min2(call.volumen_m3, ms[i].capacidad_m3)

Libre(ms, ds, k, i, j) ==
    LET t == calcular_tiempos(strftime(AnclaDe(k)), call.min_ida, VolumenDe(ms, i),
                              call.tdesc, call.margen, call.cambio)
        conf == check_conflicts(agenda, call.fecha, ms[i].id, ds[j],
                                _dt(call.fecha, strftime(t.S)),
                                _dt(call.fecha, strftime(t.T)),
                                _dt(call.fecha, strftime(t.X)), 0)
    IN  conf.mixer = <<>> /\ conf.dosif = <<>>

\* (k2, i2, j2) is tried before (k, i, j)
AntesDe(k2, i2, j2, k, i, j) ==
    \/ k2 < k
    \/ k2 = k /\ i2 < i
    \/ k2 = k /\ i2 = i /\ j2 < j

\* C6: the search is first-fit over passes, then mixers by descending
\* capacity and ascending identifier, then dosing units in listed order: it
\* returns the first combination without conflicts, with volume
\* min(remaining, capacity), and every combination before it has a conflict.
C6_FirstFit ==
    call.op = "search" =>
        LET ms == mixers_auto_std(mixers)
            ds == dosif_habilitadas(dosif)
            Ks == 0..(MaxIntentos - 1)
        IN  /\ EnOrden(ms, ds)
            /\ IF call.ret = None
               THEN \A k \in Ks, i \in 1..Len(ms), j \in 1..Len(ds) :
                        ~Libre(ms, ds, k, i, j)
               ELSE \E k \in Ks, i \in 1..Len(ms), j \in 1..Len(ds) :
                        /\ call.ret.Q = AnclaDe(k)
                        /\ call.ret.mixer_id = ms[i].id
                        /\ call.ret.dosif = ds[j]
                        /\ call.ret.volumen_m3 = VolumenDe(ms, i)
                        /\ Libre(ms, ds, k, i, j)
                        /\ \A k2 \in 0..k, i2 \in 1..Len(ms), j2 \in 1..Len(ds) :
                               AntesDe(k2, i2, j2, k, i, j) =>
                                   ~Libre(ms, ds, k2, i2, j2)

\* a search that returned a later pass than the first, on the second mixer
C6_Witness ==
    /\ call.op = "search" /\ call.ret # None
    /\ call.ret.Q > _dt(call.fecha, call.Q_str)
    /\ Len(mixers_auto_std(mixers)) = 2
    /\ call.ret.mixer_id = mixers_auto_std(mixers)[2].id

\* C7: _overlap reports two half-open windows as overlapping exactly when
\* they share an instant; windows that only touch do not overlap.
C7_HalfOpenOverlap ==
    call.op = "overlap" =>
        /\ call.ret = Solapan(call.a0, call.a1, call.b0, call.b1)
        /\ (call.a0 = 600 /\ call.a1 = 630 /\ call.b0 = 615 /\ call.b1 = 645)
               => call.ret
        /\ (call.a1 = call.b0 \/ call.b1 = call.a0) => ~call.ret

\* a call on [10:00,10:30) and [10:30,11:00), answered no
C7_Witness ==
    /\ call.op = "overlap"
    /\ call.a0 = 600 /\ call.a1 = 630 /\ call.b0 = 630 /\ call.b1 = 660
    /\ call.ret = FALSE

\* ids of the bookings on the call's date and mixer whose [S,X) shares an
\* instant with the candidate's
ChocanMixer ==
    {agenda[i].id : i \in {n \in 1..Len(agenda) :
        /\ agenda[n].fecha = call.fecha
        /\ agenda[n].mixer_id = call.mixer_id
        /\ Solapan(call.S, call.X, _dt(call.fecha, agenda[n].hora_S),
                   _dt(call.fecha, agenda[n].hora_X))}}

\* ids of the bookings on the call's date and dosing code whose [S,T) shares
\* an instant with the candidate's
ChocanDosif ==
    {agenda[i].id : i \in {n \in 1..Len(agenda) :
        /\ agenda[n].fecha = call.fecha
        /\ agenda[n].dosif_codigo = call.dosif
        /\ Solapan(call.S, call.T, _dt(call.fecha, agenda[n].hora_S),
                   _dt(call.fecha, agenda[n].hora_T))}}

\* C8: check_conflicts returns as mixer conflicts exactly the bookings of the
\* date and mixer whose [S,X) overlaps the candidate's, and as dosing
\* conflicts exactly those of the date and dosing code whose [S,T) overlaps.
C8_ExactConflicts ==
    call.op = "check" =>
        /\ SeqToSet(call.ret.mixer) = ChocanMixer
        /\ SeqToSet(call.ret.dosif) = ChocanDosif
        /\ Len(call.ret.mixer) = Cardinality(SeqToSet(call.ret.mixer))
        /\ Len(call.ret.dosif) = Cardinality(SeqToSet(call.ret.dosif))

\* a check that reports a mixer conflict and no dosing conflict while the
\* same mixer has an overlapping booking on another date
C8_Witness ==
    /\ call.op = "check"
    /\ Len(call.ret.mixer) = 1 /\ call.ret.dosif = <<>>
    /\ \E i \in 1..Len(agenda) :
          /\ agenda[i].fecha # call.fecha
          /\ agenda[i].mixer_id = call.mixer_id
          /\ Solapan(strftime(call.S), strftime(call.X),
                     agenda[i].hora_S, agenda[i].hora_X)

\* C9: when the search fails after the first iteration the call fails, the
\* trips persisted by the earlier iterations stay in the store and the
\* bookings that existed before the call are unchanged.
C9_NoRollback ==
    (plan.pc = "Infeasible" /\ plan.creado # <<>>) =>
        LET antes == plan.antes[1]
        IN  /\ Len(agenda) = Len(antes) + Len(plan.creado)
            /\ SubSeq(agenda, 1, Len(antes)) = antes
            /\ \A i \in 1..Len(plan.creado) :
                   /\ MismoViaje(agenda[Len(antes) + i], plan.creado[i])
                   /\ agenda[Len(antes) + i].fecha = plan.fecha

\* a call that failed after persisting a trip, on a store that held bookings
C9_Witness ==
    /\ plan.pc = "Infeasible" /\ plan.creado # <<>>
    /\ plan.antes[1] # <<>>

\* no mixer is both enabled and not high-capacity
SinMixerElegible(mx) ==
    \A k \in 1..Len(mx) : mx[k].habilitado = 1 => AltaCapacidad(mx[k])

\* C10: when no enabled, non-high-capacity mixer exists, planProject fails
\* with NoEligibleMixers and leaves bookings, mixers, dosing units and
\* parameters as they were.
C10_NoEligibleMixers ==
    (plan.pc # "idle" /\ SinMixerElegible(plan.antes[2])) =>
        /\ plan.pc = "NoEligibleMixers"
        /\ store = plan.antes

\* the assignment session s holds was free of conflicts in the rows its
\* search read
VistoLibre(s) ==
    LET a == hilos[s].asign
        f == hilos[s].plan.fecha
        conf == check_conflicts(hilos[s].visto, f, a.mixer_id, a.dosif,
                                _dt(f, strftime(a.S)), _dt(f, strftime(a.T)),
                                _dt(f, strftime(a.X)), 0)
    IN  conf.mixer = <<>> /\ conf.dosif = <<>>

\* C11: nothing stands between a session's conflict check and its insert:
\* every trip a session found free in the rows it read is persisted as
\* found, whatever the other session persisted in between, so two sessions
\* that check before either inserts double-book the resource both saw free.
C11_RaceUnguarded ==
    \A s \in Sesiones :
        /\ hilos[s].plan.pc = "insert" => VistoLibre(s)
        /\ \A i \in 1..Len(hilos[s].plan.creado) :
               \E n \in 1..Len(agenda) :
                   /\ agenda[n].fecha = hilos[s].plan.fecha
                   /\ MismoViaje(agenda[n], hilos[s].plan.creado[i])

\* both calls succeeded and their first trips, each found free by its own
\* session, share the date and the mixer with overlapping [S,X) windows, or
\* the date and the dosing unit with overlapping [S,T) windows
C11_Witness ==
    /\ \A s \in Sesiones : hilos[s].plan.pc = "ok"
    /\ hilos[1].plan.fecha = hilos[2].plan.fecha
    /\ LET a == hilos[1].plan.creado[1]
           b == hilos[2].plan.creado[1]
       IN  /\ a.Mixer_ID = b.Mixer_ID
           /\ Solapan(a.S_ini_carga, a.X_fin_total, b.S_ini_carga, b.X_fin_total)
           /\ a.Dosif = b.Dosif
           /\ Solapan(a.S_ini_carga, a.T_fin_carga, b.S_ini_carga, b.T_fin_carga)

\* C12: in the list a successful planProject returns, each trip arrives on
\* site at least the discharge time after the trip created before it, so
\* the discharge intervals [Q,U) of successive trips do not overlap.
C12_Staggered ==
    plan.pc = "ok" =>
        \A i \in 1..(Len(plan.creado) - 1) :
            /\ plan.creado[i + 1].Q_llega >= plan.creado[i].Q_llega + plan.tdesc
            /\ ~Solapan(plan.creado[i].Q_llega, plan.creado[i].U_fin_desc,
                        plan.creado[i + 1].Q_llega, plan.creado[i + 1].U_fin_desc)

\* the seven milestones as "%H:%M" times of day
HorasDe(t) ==
    <<strftime(t.R), strftime(t.S), strftime(t.T), strftime(t.U),
      strftime(t.V), strftime(t.W), strftime(t.X)>>

\* the smallest whole number of minutes not less than 11 * volume / 8.5
CargaExacta(volumen_m3) ==
    CHOOSE n \in 0..(TiempoCargaBase * volumen_m3) :
        /\ n * CapacidadRef >= TiempoCargaBase * volumen_m3
        /\ \A k \in 0..(n - 1) : k * CapacidadRef < TiempoCargaBase * volumen_m3

\* C13: compute returns R = Q - travelOut, S = R - loadDuration, T = R,
\* U = Q + discharge, V = U + siteChange, W = V + travelOut and
\* X = W + washMargin; Q=08:00, travel 30, 8.5 m3, discharge 20, wash 5,
\* site change 4 gives 07:30, 07:19, 07:30, 08:20, 08:24, 08:54, 08:59.
C13_Milestones ==
    call.op = "compute" =>
        LET t == call.ret
            Q == strptime_hhmm(call.hora_Q)
        IN  /\ t.R = Q - call.min_ida
            /\ t.S = t.R - CargaExacta(call.volumen_m3)
            /\ t.T = t.R
            /\ t.U = Q + call.tdesc
            /\ t.V = t.U + call.cambio
            /\ t.W = t.V + call.min_ida
            /\ t.X = t.W + call.margen
            /\ (/\ call.hora_Q = 480 /\ call.min_ida = 30
                /\ call.volumen_m3 = 17000 /\ call.tdesc = 20
                /\ call.margen = 5 /\ call.cambio = 4)
                  => HorasDe(t) = <<450, 439, 450, 500, 504, 534, 539>>

\* the call of the end-to-end scenario
C13_Witness ==
    /\ call.op = "compute"
    /\ call.hora_Q = 480 /\ call.min_ida = 30 /\ call.volumen_m3 = 17000
    /\ call.tdesc = 20 /\ call.margen = 5 /\ call.cambio = 4
    /\ strftime(call.ret.X) = 539

\* C14: the load duration T - S is the smallest whole number of minutes not
\* less than 11 * volume / 8.5 (8.5 m3 gives 11, 12.0 m3 gives 16), so it is
\* never shorter than the exact proportional load time.
C14_LoadCeiling ==
    call.op = "compute" =>
        LET carga == call.ret.T - call.ret.S
        IN  /\ carga * CapacidadRef >= TiempoCargaBase * call.volumen_m3
            /\ (carga - 1) * CapacidadRef < TiempoCargaBase * call.volumen_m3
            /\ call.volumen_m3 = 17000 => carga = 11
            /\ call.volumen_m3 = 24000 => carga = 16

\* a call with 12.0 m3, whose proportional load time is not whole
C14_Witness ==
    /\ call.op = "compute"
    /\ call.volumen_m3 = 24000
    /\ call.ret.T - call.ret.S = 16

\* a step of the planner leaves the agenda alone or appends one row, and
\* in the second case returns one more trip, the one the row holds
UnaFilaPorViaje ==
    \/ /\ agenda' = agenda
       /\ plan'.creado = plan.creado \/ plan'.pc = "idle"
    \/ /\ Len(agenda') = Len(agenda) + 1
       /\ SubSeq(agenda', 1, Len(agenda)) = agenda
       /\ Len(plan'.creado) = Len(plan.creado) + 1
       /\ MismoViaje(agenda'[Len(agenda')], plan'.creado[Len(plan'.creado)])

\* C15: a call of the conflict detector or of the search leaves bookings,
\* mixers, dosing units and parameters as they were, whatever it returns;
\* planProject writes nothing but bookings, exactly one per trip found.
C15_Purity ==
    [][/\ call' # call => store' = store
       /\ plan' # plan =>
              /\ <<mixers', dosif', parametros'>> = <<mixers, dosif, parametros>>
              /\ UnaFilaPorViaje]_vars

\* a search answered with a trip on a store that a planner call has filled
C15_Witness ==
    /\ call.op = "search" /\ call.ret # None
    /\ agenda # <<>>
    /\ plan.pc = "ok" /\ Len(plan.creado) >= 2

\* the dosing unit with that code
DosifDe(ds, codigo) == CHOOSE d \in SeqToSet(ds) : d.codigo = codigo

\* C16: neither the search nor the planner assigns a mixer or a dosing unit
\* whose enabled flag is off when the search runs; a unit switched off is in
\* no later automatic assignment.
C16_OnlyEnabled ==
    /\ \A i \in 1..Len(plan.creado) :
           /\ MixerDe(mixers, plan.creado[i].Mixer_ID).habilitado = 1
           /\ DosifDe(dosif, plan.creado[i].Dosif).habilitado = 1
    /\ (call.op = "search" /\ call.ret # None) =>
           /\ MixerDe(mixers, call.ret.mixer_id).habilitado = 1
           /\ DosifDe(dosif, call.ret.dosif).habilitado = 1

\* a call planned trips while DF-01 was off and a mixer that holds an
\* earlier booking had been switched off
C16_Witness ==
    /\ plan.pc = "ok" /\ plan.creado # <<>>
    /\ DosifDe(dosif, "DF-01").habilitado = 0
    /\ \E k \in 1..Len(mixers) :
          /\ mixers[k].habilitado = 0
          /\ \E n \in 1..Len(plan.antes[1]) :
                 plan.antes[1][n].mixer_id = mixers[k].id

\* the ids of the bookings in s other than id, in order
SinId(s, id) == SelectSeq(s, LAMBDA x : x # id)

\* C17: with an exclude booking id, that booking is in neither conflict
\* list even when its windows overlap the candidate, and every other booking
\* is reported exactly as without the exclusion.
C17_ExcludeId ==
    call.op = "check_exclude" =>
        LET todos == check_conflicts(agenda, call.fecha, call.mixer_id, call.dosif,
                                     call.S, call.T, call.X, 0)
        IN  /\ call.exclude \notin SeqToSet(call.ret.mixer)
            /\ call.exclude \notin SeqToSet(call.ret.dosif)
            /\ call.ret.mixer = SinId(todos.mixer, call.exclude)
            /\ call.ret.dosif = SinId(todos.dosif, call.exclude)
            /\ SeqToSet(call.ret.mixer) = ChocanMixer \ {call.exclude}
            /\ SeqToSet(call.ret.dosif) = ChocanDosif \ {call.exclude}

\* a check that leaves out a booking overlapping the candidate on the mixer
\* and still reports another booking of that mixer
C17_Witness ==
    /\ call.op = "check_exclude"
    /\ call.exclude \in ChocanMixer
    /\ call.ret.mixer # <<>>

\* C18: on success the returned list has one entry per booking the call
\* inserted, in creation order, each matching its persisted booking in
\* mixer, dosing unit, volume and milestones; the booking has status
\* 'Programado', cycle duration X - S in minutes and return travel equal to
\* the outbound travel; the bookings that existed before are untouched.
C18_ReturnedList ==
    plan.pc = "ok" =>
        LET antes == plan.antes[1]
        IN  /\ Len(agenda) = Len(antes) + Len(plan.creado)
            /\ SubSeq(agenda, 1, Len(antes)) = antes
            /\ \A i \in 1..Len(plan.creado) :
                   LET a == agenda[Len(antes) + i]
                   IN  /\ MismoViaje(a, plan.creado[i])
                       /\ a.fecha = plan.fecha
                       /\ a.estado = "Programado"
                       /\ a.ciclo_total_min = (a.hora_X - a.hora_S) % MinDia
                       /\ a.min_viaje_ida = plan.min_ida
                       /\ a.min_viaje_regreso = a.min_viaje_ida
                       /\ \A n \in 1..(Len(antes) + i - 1) : agenda[n].id < a.id

\* a successful call of three trips on a store that already held a booking
C18_Witness ==
    /\ plan.pc = "ok"
    /\ Len(plan.creado) = 3
    /\ plan.antes[1] # <<>>

\* C19: when the anchor time is no valid HH:MM time of day, planProject and
\* the edit of a booking are rejected and the bookings stay as they were
\* before the operation.
C19_ParseErrorNoWrite ==
    /\ [](    (plan.pc # "idle" /\ plan.hora_Q_ini \notin 0..(MinDia - 1))
           => /\ plan.pc \in {"ParseError", "NoEligibleMixers"}
              /\ plan.creado = <<>>
              /\ agenda = plan.antes[1])
    /\ [][    (call'.op = "edit" /\ call' # call
                /\ call'.hora_Q \notin 0..(MinDia - 1))
           => /\ call'.error = "ParseError"
              /\ agenda' = agenda]_vars

\* an edit with "25:00" was refused on a store that holds bookings
C19_Witness ==
    /\ call.op = "edit" /\ call.hora_Q = 1500 /\ call.error = "ParseError"
    /\ agenda # <<>>
    /\ plan.pc = "idle"

\* two parameter names are equal ignoring letter case
MismoNombre(a, b) ==
    \/ a = b
    \/ {a, b} \in {{"Intervalo_min", "INTERVALO_MIN"}, {"Bombas_min", "BOMBAS_MIN"}}

\* the rows of the parameter table whose name is name ignoring letter case
FilasDe(params, name) == SelectSeq(params, LAMBDA r : MismoNombre(r.nombre, name))

\* C20: getParam(name, default) returns the stored value and writes nothing
\* when a parameter of that name, ignoring letter case, exists; otherwise it
\* creates the parameter with the default and returns the default, and every
\* later getParam of that name returns the value created first, whatever
\* default it is given.
C20_GetParam ==
    /\ call.op \in {"get_param", "get_param_later"} =>
           LET mias == FilasDe(call.antes, call.name)
               tras == IF call.op = "get_param" THEN parametros ELSE call.medio
           IN  IF mias # <<>>
               THEN call.ret = mias[1].valor /\ tras = call.antes
               ELSE /\ call.ret = call.default
                    /\ tras = Append(call.antes, [nombre |-> call.name,
                                                  valor |-> call.default])
    /\ (call.op = "get_param_later" /\ MismoNombre(call.name, call.name2)) =>
           /\ call.ret2 = call.ret
           /\ parametros = call.medio

\* a parameter created by a read with default 7, then read again under
\* another spelling with default 9
C20_Witness ==
    /\ call.op = "get_param_later"
    /\ call.name = "Bombas_min" /\ call.default = 7
    /\ call.name2 = "BOMBAS_MIN" /\ call.default2 = 9
    /\ call.ret2 = 7
    /\ Len(parametros) = Len(call.antes) + 1

(* ---- C21 ---- *)

\* C21: get_param called without a default on a name no row matches (in
\* any spelling) raises the missing-parameter error (ValueError in the
\* source) and leaves the parameter table as it was; on a name some row
\* matches it raises nothing, returns that row's value and writes nothing.
C21_MissingParameter ==
    call.op = "get_param_sin_default" =>
        /\ parametros = call.antes
        /\ IF FilasDe(call.antes, call.name) = <<>>
           THEN call.error = "ValueError" /\ call.ret = None
           ELSE call.error = "none"
                /\ call.ret = FilasDe(call.antes, call.name)[1].valor

\* a call without default on a parameter the store does not hold
C21_Witness ==
    /\ call.op = "get_param_sin_default"
    /\ call.name = "BOMBAS_MIN"
    /\ call.error = "ValueError"
    /\ parametros = call.antes

(* ---- C22 ---- *)

RetornoDe(c) ==
    asignar_viaje_factible(agenda, mixers, dosif, parametros, c.fecha, c.Q_str,
        c.volumen_m3, c.min_ida, c.tdesc, c.margen, c.cambio).asign

\* C23 as stated: a search that returns no assignment has used up its 192
\* attempts; nothing but the attempt bound ends an unsuccessful search.
C23_OnlyAttemptBound ==
    (call.op = "search_fin" /\ call.ret = None) => call.intentos = MaxIntentos

\* C23 amended: the search always terminates, for any bookings and any
\* slot interval including 0: each pass that finds nothing adds one to the
\* attempt counter, a combination is returned after at most 192 anchors
\* were tried, and a search returns nothing either after exactly 192 failed
\* passes or at once, before its loop, when no mixer or no dosing unit is
\* eligible.
C23_SearchTerminates ==
    /\ [](call.op \in {"search_loop", "search_fin"} =>
             /\ call.intentos \in 0..MaxIntentos
             /\ call.Q_dt = avanzar_Q(_dt(call.fecha, call.Q_str),
                                      call.intervalo_min, call.intentos))
    /\ [](call.op = "search_fin" =>
             /\ call.ret = RetornoDe(call)
             /\ call.ret # None => call.intentos < MaxIntentos
             /\ call.ret = None =>
                   IF call.en_bucle THEN call.intentos = MaxIntentos
                   ELSE call.intentos = 0
                        /\ (call.lista_mixers = <<>> \/ call.dosifs = <<>>))
    /\ [][(call.op = "search_loop" /\ call'.op = "search_loop")
             => call'.intentos = call.intentos + 1]_vars
    /\ ((call.op = "search_loop") ~> (call.op = "search_fin"))

\* a search on a fully booked day with a slot interval of 0 that gave up
\* after 192 passes
C23_Witness ==
    /\ call.op = "search_fin"
    /\ call.ret = None
    /\ call.en_bucle
    /\ call.intervalo_min = 0
    /\ call.intentos = MaxIntentos
    /\ agenda = AgendaLlena

(* ---- C24 ---- *)

\* the smallest capacity among the mixers the planner may use
MenorCapacidad(mx) ==
    LET caps == {mixers_auto_std(mx)[i].capacidad_m3 :
                    i \in 1..Len(mixers_auto_std(mx))}
    IN  CHOOSE c \in caps : \A d \in caps : c <= d

\* ceil(a / b) for b > 0
Techo(a, b) == (a + b - 1) \div b

\* every mixer the planner may use has a capacity above 0
CapacidadesPositivas(mx) ==
    \A i \in 1..Len(mixers_auto_std(mx)) :
        mixers_auto_std(mx)[i].capacidad_m3 > 0

\* the trips a call in its loop may still persist fit under the bound on
\* the number of stored bookings
CabeElResto ==
    Len(agenda) + Techo(plan.total, MenorCapacidad(mixers)) - Len(plan.creado)
        <= MaxAgenda

\* C24: planProject always terminates.  With every eligible mixer of
\* capacity > 0, each iteration that persists a trip makes the remaining
\* volume strictly smaller and never negative; the trips persisted by one
\* call never number more than ceil(totalVolume / smallest eligible
\* capacity); the call returns its trips only once the remainder is at most
\* 0.001 m3 and otherwise ends earlier with the scheduling failure; and a
\* call that has entered its loop does leave it.
C24_PlanTerminates ==
    /\ [][(plan.pc = "loop" /\ plan'.pc = "loop" /\ CapacidadesPositivas(mixers))
             => /\ plan'.restante < plan.restante
                /\ plan'.restante >= 0
                /\ Len(plan'.creado) = Len(plan.creado) + 1
                /\ Len(agenda') = Len(agenda) + 1]_vars
    /\ []((plan.pc \in {"loop", "ok", "Infeasible"} /\ CapacidadesPositivas(mixers))
             => /\ plan.restante \in 0..plan.total
                /\ Len(plan.creado) <= Techo(plan.total, MenorCapacidad(mixers)))
    /\ [](plan.pc = "ok" => plan.restante <= Epsilon)
    /\ [](plan.pc = "Infeasible" => plan.restante > Epsilon)
    /\ ((plan.pc = "loop" /\ CapacidadesPositivas(mixers) /\ CabeElResto)
            ~> (plan.pc \in {"ok", "Infeasible"}))

\* a call for 20.0 m3 that returned after as many trips as the bound allows:
\* three, the smallest eligible capacity being 8.5 m3
C24_Witness ==
    /\ plan.pc = "ok"
    /\ plan.total = 40000
    /\ CapacidadesPositivas(mixers)
    /\ MenorCapacidad(mixers) = 17000
    /\ Len(plan.creado) = 3
    /\ plan.restante = 0

(* ---- C25 ---- *)

\* the desired arrival of search number k (from 0) of the call in progress
InicioDe(k) == _dt(plan.fecha, plan.hora_Q_ini) + k * plan.tdesc

\* C25: in planProject the k-th search (k = 0, 1, 2, ...) is started with
\* the desired arrival initialQ + k * dischargeMin, whatever arrivals the
\* earlier searches assigned after shifting: the cursor stands there before
\* every iteration, and the trip an iteration persists is the one the
\* search returns from there.
C25_SearchAnchors ==
    /\ [](plan.pc \in {"loop", "ok", "Infeasible"} =>
             plan.Q_actual = InicioDe(Len(plan.creado)))
    /\ [][(plan.pc = "loop" /\ plan'.pc = "loop") =>
             plan'.creado = Append(plan.creado,
                 entrada_creado(asignar_viaje_factible(agenda, mixers, dosif,
                     parametros, plan.fecha,
                     strftime(InicioDe(Len(plan.creado))), plan.restante,
                     plan.min_ida, plan.tdesc, plan.margen,
                     plan.cambio).asign))]_vars

\* two searches done, the second of which was shifted past the arrival it
\* was started with, and the third about to start 2 * dischargeMin after
\* the initial arrival
C25_Witness ==
    /\ plan.pc = "loop"
    /\ Len(plan.creado) = 2
    /\ plan.creado[2].Q_llega # strftime(InicioDe(1))
    /\ plan.Q_actual = InicioDe(2)
    /\ plan.restante > Epsilon

(* ---- C26 ---- *)

\* the ids of the bookings of an agenda
IdsDe(ag) == {ag[i].id : i \in 1..Len(ag)}

\* booking id is in no list check_conflicts returns on agenda ag
EnNingunChoque(ag, id) ==
    \A f \in Fechas, m \in 1..Len(mixers), d \in {"DF-01", "DF-06"},
       w \in Ventanas, e \in {0, id} :
        LET c == check_conflicts(ag, f, m, d, _dt(f, w[1]), _dt(f, w[2]),
                                 _dt(f, w[3]), e)
        IN  id \notin SeqToSet(c.mixer) \cup SeqToSet(c.dosif)

\* C26: in every reachable state every booking's status tag is
\* 'Programado': the planner's insert and every edit set it.  A step does
\* one of three things to a stored booking: leaves or edits it (tag
\* 'Programado'), or deletes it; a deleted booking is in no list a conflict
\* check returns, and a booking that appears has an id never used before.
C26_Programado ==
    /\ [](\A i \in 1..Len(agenda) : agenda[i].estado = "Programado")
    /\ [][\A i \in 1..Len(agenda) :
              \/ \E j \in 1..Len(agenda') :
                     /\ agenda'[j].id = agenda[i].id
                     /\ agenda'[j].estado = "Programado"
              \/ /\ agenda[i].id \notin IdsDe(agenda')
                 /\ EnNingunChoque(agenda', agenda[i].id)]_vars
    /\ [][\A j \in 1..Len(agenda') :
              agenda'[j].id \in IdsDe(agenda) \/ agenda'[j].id > seq_agenda]_vars

\* two bookings were planned, one of them was edited and the other deleted
C26_Witness ==
    /\ seq_agenda = 2
    /\ Len(agenda) = 1
    /\ call.op = "edit"
    /\ call.error = "none"
    /\ call.id = agenda[1].id
    /\ agenda[1].hora_Q = 500
    /\ agenda[1].estado = "Programado"

(* ---- C27 ---- *)

\* C27: the arrival of an assignment the search returns, and of the
\* booking planProject persists for it, read as a time of day on the service
\* date, is never earlier than the desired arrival given to the search:
\* advancing the anchor never wraps past midnight onto the start of the
\* same date.
C27_NoWrap ==
    /\ (call.op = "search" /\ call.ret # None) =>
           strftime(call.ret.Q) >= call.Q_str
    /\ plan.pc \in {"loop", "ok", "Infeasible"} =>
           \A k \in 1..Len(plan.creado) :
               /\ plan.creado[k].Q_llega >= strftime(InicioDe(k - 1))
               /\ \E i \in 1..Len(agenda) :
                      /\ agenda[i].fecha = plan.fecha
                      /\ agenda[i].hora_Q = plan.creado[k].Q_llega
                      /\ agenda[i].hora_Q >= strftime(InicioDe(k - 1))

(* ---- C28 ---- *)

\* bookings a and b of one date hold the same mixer during overlapping
\* [S,X) windows or the same dosing unit during overlapping [S,T) windows
DobleReserva(a, b) ==
    /\ a.fecha = b.fecha
    /\ \/ /\ a.mixer_id = b.mixer_id
          /\ Solapan(a.hora_S, a.hora_X, b.hora_S, b.hora_X)
       \/ /\ a.dosif_codigo = b.dosif_codigo
          /\ Solapan(a.hora_S, a.hora_T, b.hora_S, b.hora_T)

\* C28: in every reachable state, also after edits of bookings, no two
\* bookings of one date share a mixer with overlapping [S,X) windows or a
\* dosing code with overlapping [S,T) windows: an edit that would overlap
\* another booking on a shared resource is not persisted.
C28_NoOverlapAfterEdit ==
    \A i \in 1..Len(agenda), j \in 1..Len(agenda) :
        i # j => ~DobleReserva(agenda[i], agenda[j])

(* ---- C29 ---- *)

\* the row of agenda ag with identifier id
FilaDe(ag, id) == CHOOSE r \in SeqToSet(ag) : r.id = id

\* the edit recorded was given the values the booking already had
EdicionSinCambios ==
    /\ call.op = "edit"
    /\ call.error = "none"
    /\ LET f == FilaDe(call.antes, call.id)
       IN  /\ call.fecha = f.fecha /\ call.hora_Q = f.hora_Q
           /\ call.min_ida = f.min_viaje_ida /\ call.volumen_m3 = f.volumen_m3
           /\ call.mixer_id = f.mixer_id /\ call.dosif = f.dosif_codigo

\* C29: editing a booking with exactly the date, arrival time, travel,
\* volume, mixer and dosing unit it already has leaves its computed fields
\* as they were: the seven milestones and the cycle duration are unchanged,
\* whatever discharge duration planProject created the booking with.
C29_EditNoOp ==
    EdicionSinCambios =>
        LET a == FilaDe(call.antes, call.id)
            d == FilaDe(agenda, call.id)
        IN  /\ d.hora_Q = a.hora_Q /\ d.hora_R = a.hora_R /\ d.hora_S = a.hora_S
            /\ d.hora_T = a.hora_T /\ d.hora_U = a.hora_U /\ d.hora_V = a.hora_V
            /\ d.hora_W = a.hora_W /\ d.hora_X = a.hora_X
            /\ d.ciclo_total_min = a.ciclo_total_min

(* ---- C30 ---- *)

\* C30: parameter write/read round trip: after upsertParam(name, v),
\* getParam(name2, d) returns v for every name2 equal to name up to letter
\* case and every default d, whatever parameters existed before the write.
C30_RoundTrip ==
    (call.op = "upsert_get" /\ MismoNombre(call.name2, call.nombre)) =>
        call.ret = call.valor

====
